---- MODULE Spec2Model ----
(***************************************************************************)
(* Model of the trend-analysis core of mmel                                *)
(* (src/server/routes/trend-analysis.ts).                                  *)
(*                                                                         *)
(* The source file holds two generations of the route.  The later one      *)
(* (lines 789-1662, the "data-driven" forecaster) is modelled under the    *)
(* source's names; the earlier one (lines 1-787, the "scenario"            *)
(* forecaster) is modelled under the same names with the prefix            *)
(* "scenario".                                                             *)
(*                                                                         *)
(* Numbers.  JavaScript numbers are doubles; the model uses integers:      *)
(*   - rates (beta, gamma, sigma) are in millionths,                       *)
(*   - draws of the seeded generator and of Math.random are in             *)
(*     thousandths,                                                        *)
(*   - multipliers are in hundredths,                                      *)
(*   - the "recovered" field of a predicted SEIR point is in tenths of a   *)
(*     listener, because totalPopulation * 0.1 enters it unrounded,        *)
(*   - the compartments of the integrators are in thousandths of a         *)
(*     listener (Listener).                                                *)
(* Math.round is Round (half up, as in JavaScript).                        *)
(***************************************************************************)
EXTENDS Integers, Sequences, FiniteSets, TLC

VARIABLES
    clock,        \* the wall clock and the time zone of the server process
    trackCache,   \* trend-analysis.ts:798  const trackCache
    response,     \* what the last handleTrendAnalysis call sent
    derived,      \* the last two results of generateModelParameters
    fc,           \* one forecast computation: its inputs and its output
    sim,          \* one run of simulateSIS / simulateSEIR
    fold,         \* one reduce over the characters of title + artist
    inflight,     \* the requests the server has received, and their outcomes
    pick,         \* one weighted selection of a scenario
    page,         \* client/pages/Index.tsx: the state of the Index component
    rec           \* one call of generateCreatorRecommendation

vars == <<clock, trackCache, response, derived, fc, sim, fold, inflight, pick, page, rec>>

----------------------------------------------------------------------------
(* Arithmetic helpers *)

Max(a, b) == IF a >= b THEN a ELSE b
Min(a, b) == IF a <= b THEN a ELSE b
Abs(a) == IF a >= 0 THEN a ELSE -a

\* floor(x * m / d) for d > 0, computed without leaving 32 bits
MulDiv(x, m, d) == (x \div d) * m + ((x % d) * m) \div d

\* Math.round(n / d) for d > 0: floor(n / d + 1/2)
Round(n, d) == (2 * n + d) \div (2 * d)

\* Math.round(x * m / d) for d > 0 and even d
RoundMulDiv(x, m, d) == (x \div d) * m + ((x % d) * m + d \div 2) \div d

RECURSIVE SumSeq(_)
SumSeq(s) == IF s = <<>> THEN 0 ELSE Head(s) + SumSeq(Tail(s))

----------------------------------------------------------------------------
(* Items (MusicTrack, src/unnamed/part_000).  title and artist are the     *)
(* sequences of the UTF-16 code units of the strings; releaseYear 0 and an *)
(* empty genre stand for the absent optional fields (the code reads both   *)
(* through "|| currentYear" and "?.includes", which treat them alike).     *)

NoTrack == [id |-> "none", title |-> <<>>, artist |-> <<>>, releaseYear |-> 0,
            genre |-> {}, popularity |-> 0]

MusicTrack(id, title, artist, releaseYear, genre, popularity) ==
    [id |-> id, title |-> title, artist |-> artist, releaseYear |-> releaseYear,
     genre |-> genre, popularity |-> popularity]

----------------------------------------------------------------------------
(* Seeded pseudo-random generator *)

\* The 16-bit halves of the two's-complement pattern of a 32-bit integer
lowHalf(a) == a % 65536
highHalf(a) == (a \div 65536) % 65536

\* ToInt32 of the pattern with the halves hi and lo
int32(hi, lo) == (IF hi >= 32768 THEN hi - 65536 ELSE hi) * 65536 + lo

\* a shift by four bits
shiftLeft5_ByFour(a) ==
    LET lo == lowHalf(a) * 16
    IN  int32((highHalf(a) * 16 + lo \div 65536) % 65536, lo % 65536)

\* a << 5: the low 32 bits of a * 32, read as a signed integer
shiftLeft5(a) ==
    LET lo == lowHalf(a) * 32
    IN  int32((highHalf(a) * 32 + lo \div 65536) % 65536, lo % 65536)

\* a = (a << 5) - a + b.charCodeAt(0); return a & a.  The sum is exact in a
\* double; a & a is ToInt32 of it.  It is formed on the halves here.
hashStep(a, c) ==
    LET x  == shiftLeft5(a)
        lo == lowHalf(x) - lowHalf(a) + c
        hi == highHalf(x) - highHalf(a) + lo \div 65536
    IN  int32(hi % 65536, lo % 65536)

RECURSIVE hashFrom(_, _)
\* the reduce from the accumulator a over the characters s; the accumulator
\* is a number after every call of the reducer
hashFrom(a, s) ==
    IF s = <<>> THEN a
    ELSE LET acc == hashStep(a, Head(s))
         IN  IF acc \in Int THEN hashFrom(acc, Tail(s)) ELSE acc

\* (track.title + track.artist).split("").reduce(..., 0)
trackSeed(track) == hashFrom(0, track.title \o track.artist)

\* x = Math.sin(seed) * 10000; x - Math.floor(x): a value of [0, 1) that is a
\* function of the seed alone.  The sine is not computed here: the draw, in
\* thousandths, is taken from a fixed scrambling of the seed.
seededRandom(seed) == (((seed % 1009) * 619 + (seed % 7) * 131 + 389) % 1000)

----------------------------------------------------------------------------
(* The ambient state a function of the route can read: the wall clock      *)
(* (new Date()) and the global random source (Math.random()).              *)

\* Values Math.random() can return, in thousandths
MathRandomDraws == {0, 999}

Ambient(year, random) == [year |-> year, random |-> random]

----------------------------------------------------------------------------
(* Parameter deriver: generateModelParameters, lines 993-1095.             *)
(* Rates are in millionths, popularity stays 0..100 (the code divides it   *)
(* by 100 and compares with 0.6, 0.4, 0.5).                                *)

trackAge(track, currentYear) ==
    currentYear - (IF track.releaseYear = 0 THEN currentYear ELSE track.releaseYear)

isViral(track) == "Pop" \in track.genre \/ "Alternative" \in track.genre
isClassic(track, currentYear) == trackAge(track, currentYear) > 20
isRecent(track, currentYear) == trackAge(track, currentYear) <= 2
isNew(track, currentYear) == trackAge(track, currentYear) <= 1

\* a clamp that forgets the upper bound
clampRate_NoUpperBound(lo, hi, x) == Max(lo, x)

\* lines 1072-1086: Math.max(lo, Math.min(hi, x))
clampRate(lo, hi, x) == Max(lo, Min(hi, x))

\* lines 1019-1045: baseBeta after the popularity adjustment
baseBeta(track, currentYear) ==
    LET r == seededRandom(trackSeed(track))
        b == IF isNew(track, currentYear)
                 THEN 300000 + track.popularity * 4000 + r * 200
             ELSE IF isRecent(track, currentYear) /\ isViral(track)
                 THEN 350000 + r * 200
             ELSE IF isClassic(track, currentYear) THEN 150000 + r * 100
             ELSE IF isViral(track) THEN 250000 + r * 150
             ELSE 100000 + r * 80
    IN  (b * (600 + 4 * track.popularity)) \div 1000

\* lines 1019-1042: baseGamma
baseGamma(track, currentYear) ==
    LET r == seededRandom(trackSeed(track) + 1)
    IN  IF isNew(track, currentYear) THEN 10000 + r * 20
        ELSE IF isRecent(track, currentYear) /\ isViral(track) THEN 40000 + r * 30
        ELSE IF isClassic(track, currentYear) THEN 20000 + r * 20
        ELSE IF isViral(track) THEN 40000 + r * 30
        ELSE 30000 + r * 20

\* lines 1047-1048
totalPopulation(track) ==
    5000000 + seededRandom(trackSeed(track) + 2) * 5000

\* a base count that takes popularity for a number between 0 and 1
baseInitialInfected_PopularityNotScaled(track, currentYear) ==
    LET pop == track.popularity
    IN  IF isNew(track, currentYear) /\ pop > 60 THEN pop * 80000 + 50000
        ELSE IF isRecent(track, currentYear) /\ pop > 40 THEN pop * 60000 + 30000
        ELSE IF isClassic(track, currentYear) /\ pop > 50 THEN pop * 50000 + 20000
        ELSE pop * 40000 + 15000

\* lines 1050-1064
baseInitialInfected(track, currentYear) ==
    LET pop == track.popularity
    IN  IF isNew(track, currentYear) /\ pop > 60 THEN pop * 800 + 50000
        ELSE IF isRecent(track, currentYear) /\ pop > 40 THEN pop * 600 + 30000
        ELSE IF isClassic(track, currentYear) /\ pop > 50 THEN pop * 500 + 20000
        ELSE pop * 400 + 15000

\* the draw Math.random() would give in place of the seeded one
initialInfectedDraw_MathRandom(track, env) == env.random

\* line 1067: seededRandom(trackSeed + 3)
initialInfectedDraw(track, env) == seededRandom(trackSeed(track) + 3)

\* lines 1066-1068
initialInfected(track, env) ==
    baseInitialInfected(track, env.year) + initialInfectedDraw(track, env) * 30

\* generateModelParameters(track, modelType), with the ambient state it runs in
generateModelParameters(track, modelType, env) ==
    LET currentYear == env.year
        bb == baseBeta(track, currentYear)
        bg == baseGamma(track, currentYear)
        ii == initialInfected(track, env)
        adjustedGamma == IF isNew(track, currentYear) THEN bg \div 2 ELSE bg
    IN  IF modelType = "SIS"
        THEN [beta |-> clampRate(1000, 700000, bb),
              gamma |-> clampRate(5000, 120000, bg),
              sigma |-> 0,
              initialInfected |-> ii,
              totalPopulation |-> totalPopulation(track)]
        ELSE [beta |-> clampRate(1000, 800000, (bb * 12) \div 10),
              gamma |-> clampRate(5000, 100000, (adjustedGamma * 8) \div 10),
              sigma |-> clampRate(20000, 300000,
                          80000 + track.popularity * 2000
                          + seededRandom(trackSeed(track) + 4) * 100),
              initialInfected |-> ii,
              totalPopulation |-> totalPopulation(track)]

----------------------------------------------------------------------------
(* The items of the model *)

\* "Test" by "Creator": released in the first year of the clock, Pop, 80
TestTrack ==
    MusicTrack("t1", <<84, 101, 115, 116>>, <<67, 114, 101, 97, 116, 111, 114>>,
               2026, {"Pop"}, 80)
\* released 25 years before the first year of the clock
ClassicTrack == MusicTrack("t2", <<79, 108, 100>>, <<66>>, 2001, {"Rock"}, 30)
\* one year old in 2026, two years old in 2027
LastYearTrack == MusicTrack("t3", <<72, 105, 116>>, <<65>>, 2025, {"Pop"}, 100)
RegularTrack == MusicTrack("t4", <<83>>, <<90>>, 2020, {}, 0)
\* a second item under the identifier of TestTrack, with no release year
OtherT1Track == MusicTrack("t1", <<86, 50>>, <<88>>, 0, {"Alternative"}, 50)
\* ClassicTrack, had it been released in the first year of the clock
ClassicTrackReleasedNow == [ClassicTrack EXCEPT !.releaseYear = 2026]

Tracks ==
    {TestTrack, ClassicTrack, LastYearTrack, RegularTrack, OtherT1Track,
     ClassicTrackReleasedNow}
ModelTypes == {"SIS", "SEIR"}

----------------------------------------------------------------------------
(* The wall clock.  day is the local calendar day (a day count), hour the  *)
(* local hour; tzStd is the offset of local time from UTC in hours and     *)
(* dstStart the local day on which daylight saving time begins (at 02:00   *)
(* local, the offset grows by one hour); NoDst for a zone without it.      *)

\* How many times the year may turn in a run
MaxYearTurns == 1

NoDst == 1000 * 1000
FirstYear == 2000 + 26
ClockStart == [year |-> FirstYear, day |-> 700, hour |-> 12, tzStd |-> 0,
               dstStart |-> NoDst]

----------------------------------------------------------------------------
(* Dates.  new Date(d); x.setDate(x.getDate() + n) moves the local         *)
(* calendar day and keeps the local time of day; toISOString() prints the  *)
(* UTC date of that instant.  A date is the day count of the printed UTC   *)
(* date.                                                                   *)

\* the offset of local time from UTC, in hours, on a local day at the clock's hour
utcOffset(clk, localDay) ==
    clk.tzStd + (IF localDay > clk.dstStart
                    \/ (localDay = clk.dstStart /\ clk.hour >= 3) THEN 1 ELSE 0)

\* date.toISOString().split("T")[0] of the clock's time of day on a local day
isoDate(clk, localDay) == (localDay * 24 + clk.hour - utcOffset(clk, localDay)) \div 24

\* futureDate.getDay(): the weekday of a local day
getDay(localDay) == localDay % 7

----------------------------------------------------------------------------
(* DataPoint (TrendDataPoint, src/unnamed/part_000).  recovered is in      *)
(* tenths of a listener in every point; a SIS point has exposed and        *)
(* recovered undefined.                                                    *)

undefined == 0 - 1

DataPoint(date, susceptible, exposed, infected, recovered, N) ==
    [date |-> date, susceptible |-> susceptible, exposed |-> exposed,
     infected |-> infected, recovered |-> recovered, totalPopulation |-> N]

\* x || 0 for an optional count
orZero(x) == IF x = undefined THEN 0 ELSE x

RECURSIVE ISqrtBetween(_, _, _)
ISqrtBetween(n, lo, hi) ==
    IF lo >= hi THEN lo
    ELSE LET mid == (lo + hi + 1) \div 2
         IN  IF mid * mid <= n THEN ISqrtBetween(n, mid, hi)
             ELSE ISqrtBetween(n, lo, mid - 1)

\* floor(sqrt(n)) for 0 <= n < 2^30
ISqrt(n) == ISqrtBetween(n, 0, 32767)

infectedOf(data) == [i \in 1..Len(data) |-> data[i].infected]

RECURSIVE SumSquares(_)
SumSquares(s) == IF s = <<>> THEN 0 ELSE Head(s) * Head(s) + SumSquares(Tail(s))

RECURSIVE MaxAbs(_)
MaxAbs(s) == IF s = <<>> THEN 0 ELSE Max(Abs(Head(s)), MaxAbs(Tail(s)))

\* calculateVolatility, lines 1098-1108: sqrt(variance) / mean, in thousandths.
\* With dev[i] = n * v[i] - sum(v) it is sqrt(sum(dev^2) / n) / sum(v); the
\* deviations are scaled to 13 bits before they are squared.
calculateVolatility(data) ==
    IF Len(data) < 2 THEN 0
    ELSE LET v == infectedOf(data)
             n == Len(v)
             total == SumSeq(v)
             dev == [i \in 1..n |-> n * v[i] - total]
             scale == 1 + MaxAbs(dev) \div 8000
             small == [i \in 1..n |-> dev[i] \div scale]
             root == ISqrt(SumSquares(small) \div n)
         IN  MulDiv(root * scale, 1000, total)

----------------------------------------------------------------------------
(* Data-driven forecaster: the body of handleTrendAnalysis, lines          *)
(* 1381-1638.                                                              *)
(*                                                                         *)
(* Line 1446-1460 multiply currentListeners by the trend effect, the       *)
(* momentum effect, the boost of a new trendy song, the weekly multiplier  *)
(* and the noise factor.  The first four are functions of the request (of  *)
(* the history, the item, the date and the day); their product for a day   *)
(* is the entry det[day] of the computation's input, in hundredths, and    *)
(* can be negative (a falling 14-day slope makes 1 + currentTrendEffect *  *)
(* day negative).  The noise factor is computed from the draw of           *)
(* Math.random() of the day, rnd[day].                                     *)

\* line 1435: 1 + (Math.random() - 0.5) * recentVolatility * 0.5, in thousandths
noiseFactor(random, recentVolatility) ==
    1000 + ((random - 500) * recentVolatility) \div 2000

\* lines 1438-1460: Math.round(baseInfected * weeklyMultiplier * noiseFactor)
newInfectedOf(currentListeners, detFactor, noise) ==
    RoundMulDiv(MulDiv(currentListeners, detFactor, 100), noise, 1000)

\* e^(-day * 0.1) in thousandths (line 1487), by the recurrence e(d) = e(d-1) * 0.905
RECURSIVE trendDecayFactor(_)
trendDecayFactor(day) ==
    IF day = 0 THEN 1000 ELSE (trendDecayFactor(day - 1) * 905) \div 1000

\* lines 1489-1506
newExposedOf(track, year, lastHistorical, prevHistorical, day) ==
    LET baseExposed == orZero(lastHistorical.exposed)
        prevExposed == orZero(prevHistorical.exposed)
        isNewTrendySong == trackAge(track, year) <= 1 /\ track.popularity > 60
        den == Max(IF prevExposed = 0 THEN 1 ELSE prevExposed, 1)
        \* baseExposed * exposedTrend * trendDecayFactor, rounded
        drift == RoundMulDiv(MulDiv(baseExposed, baseExposed - prevExposed, den),
                             trendDecayFactor(day), 1000)
    IN  IF isNewTrendySong /\ day <= 14
        THEN Max(RoundMulDiv(baseExposed, 800, 1000),
                 RoundMulDiv(baseExposed, 1100 - 5 * day, 1000))
        ELSE Max(0, baseExposed + drift)

\* lines 1508-1530, in whole listeners
newRecoveredOf(track, year, lastHistorical, newInfected) ==
    LET baseRecovered == orZero(lastHistorical.recovered) \div 10
        isNewSong == trackAge(track, year) <= 1
        infectedChange == newInfected - lastHistorical.infected
    IN  IF infectedChange < 0
        THEN Max(0, Round(10 * baseRecovered
                          + Abs(infectedChange) * (IF isNewSong THEN 3 ELSE 7), 10))
        ELSE Max(0, IF isNewSong THEN RoundMulDiv(baseRecovered, 201, 200)
                    ELSE RoundMulDiv(baseRecovered, 51, 50))

\* a floor of the pushed infected count that lets it reach 0
floorInfected_AtZero(newInfected) == Max(0, newInfected)

\* lines 1557 and 710: infected: Math.max(1, newInfected)
floorInfected(newInfected) == Max(1, newInfected)

\* lines 1385-1386: historicalData.slice(-recentDays)
recentData(historicalData) ==
    SubSeq(historicalData, Max(1, Len(historicalData) - 13), Len(historicalData))

\* One iteration of the loop of lines 1417-1561: the point pushed for a day
forecastPoint(track, modelType, parameters, historicalData, clk, day, detFactor, random) ==
    LET N == parameters.totalPopulation
        lastHistorical == historicalData[Len(historicalData)]
        prevHistorical == IF Len(historicalData) >= 2
                          THEN historicalData[Len(historicalData) - 1]
                          ELSE lastHistorical
        currentListeners == IF lastHistorical.infected = 0
                            THEN parameters.initialInfected
                            ELSE lastHistorical.infected
        newInfected == newInfectedOf(currentListeners, detFactor,
                           noiseFactor(random,
                                       calculateVolatility(recentData(historicalData))))
        date == isoDate(clk, clk.day + day)
    IN  IF modelType = "SIS"
        THEN DataPoint(date, Max(0, N - newInfected), undefined,
                       floorInfected(newInfected), undefined, N)
        ELSE LET newExposed == newExposedOf(track, clk.year, lastHistorical,
                                            prevHistorical, day)
                 recovered0 == newRecoveredOf(track, clk.year, lastHistorical, newInfected)
                 susceptible0 == Max(0, N - newExposed - newInfected - recovered0)
                 \* lines 1540-1550: below 10% of the population
                 low == 10 * susceptible0 < N
                 newRecovered == IF low
                                 THEN Max(0, 10 * recovered0 - (N - 10 * susceptible0))
                                 ELSE 10 * recovered0
                 newSusceptible == IF low
                                   THEN Round(10 * (N - newExposed - newInfected)
                                              - newRecovered, 10)
                                   ELSE susceptible0
             IN  DataPoint(date, Max(0, newSusceptible), newExposed,
                           floorInfected(newInfected), newRecovered, N)

\* line 1569: maxChangePercent, in hundredths
maxChangePercent == 20

\* the test of line 1573 with maxChange taken from the current value
exceedsMaxChange_OfCurrent(prev, curr) ==
    Abs(curr - prev) > MulDiv(curr, maxChangePercent, 100)

\* lines 1570-1573: Math.abs(curr - prev) > prev * maxChangePercent, on whole counts
exceedsMaxChange(prev, curr) ==
    Abs(curr - prev) > MulDiv(prev, maxChangePercent, 100)

\* One iteration of the loop of lines 1564-1615 (i counts from 1, so i >= 2)
clampAt(predictions, i, modelType, parameters) ==
    LET N == parameters.totalPopulation
        prev == predictions[i - 1].infected
        curr == predictions[i].infected
        direction == IF curr > prev THEN 1 ELSE 0 - 1
        smoothedInfected == RoundMulDiv(prev, 100 + maxChangePercent * direction, 100)
        infectedDiff == smoothedInfected - curr
        originalExposed == orZero(predictions[i].exposed)
        originalRecovered == orZero(predictions[i].recovered)
        exposed == IF infectedDiff < 0
                   THEN RoundMulDiv(originalExposed, 9, 10)
                   ELSE Round(Max(0, 2 * originalExposed - infectedDiff), 2)
        recovered == IF infectedDiff < 0
                     THEN 10 * Round(originalRecovered + 7 * Abs(infectedDiff), 10)
                     ELSE originalRecovered
    IN  IF exceedsMaxChange(prev, curr)
        THEN [predictions EXCEPT ![i] =
                IF modelType = "SIS"
                THEN [@ EXCEPT !.infected = smoothedInfected,
                               !.susceptible = N - smoothedInfected]
                ELSE [@ EXCEPT !.infected = smoothedInfected,
                               !.exposed = exposed,
                               !.recovered = recovered,
                               !.susceptible =
                                   Round(10 * (N - smoothedInfected - exposed)
                                         - recovered, 10)]]
        ELSE predictions

\* an iteration that takes the change of infected out of susceptible
outlierAt_WithSusceptible(predictions, i) ==
    LET prev == predictions[i - 1].infected
        curr == predictions[i].infected
        next == predictions[i + 1].infected
        twiceExpected == prev + next
        blend == Round(8 * curr + twiceExpected, 10)
    IN  IF 2 * Abs(2 * curr - twiceExpected) > twiceExpected /\ twiceExpected > 0
        THEN [predictions EXCEPT ![i].infected = blend,
                                 ![i].susceptible = @ - (blend - curr)]
        ELSE predictions

\* an iteration that blends actual and expected half and half
outlierAt_HalfBlend(predictions, i) ==
    LET prev == predictions[i - 1].infected
        curr == predictions[i].infected
        next == predictions[i + 1].infected
        twiceExpected == prev + next
    IN  IF 2 * Abs(2 * curr - twiceExpected) > twiceExpected /\ twiceExpected > 0
        THEN [predictions EXCEPT ![i].infected = Round(2 * curr + twiceExpected, 4)]
        ELSE predictions

\* One iteration of the loop of lines 1618-1635 (i counts from 1, so i >= 3)
outlierAt(predictions, i) ==
    LET prev == predictions[i - 1].infected
        curr == predictions[i].infected
        next == predictions[i + 1].infected
        \* expectedValue = prev + (next - prev) / 2 = (prev + next) / 2
        twiceExpected == prev + next
    IN  IF 2 * Abs(2 * curr - twiceExpected) > twiceExpected /\ twiceExpected > 0
        THEN [predictions EXCEPT ![i].infected = Round(8 * curr + twiceExpected, 10)]
        ELSE predictions

\* The loop of lines 1564-1615, from its i-th iteration on
RECURSIVE clampFrom(_, _, _, _)
clampFrom(predictions, i, modelType, parameters) ==
    IF i > Len(predictions) THEN predictions
    ELSE clampFrom(clampAt(predictions, i, modelType, parameters), i + 1,
                   modelType, parameters)

RECURSIVE outlierFrom(_, _)
outlierFrom(predictions, i) ==
    IF i > Len(predictions) - 1 THEN predictions
    ELSE outlierFrom(outlierAt(predictions, i), i + 1)

\* predictions.slice(1), line 1638
dropFirst(predictions) == SubSeq(predictions, 2, Len(predictions))

\* The forecast of one request: the series after each stage
forecast(track, modelType, parameters, historicalData, predictionDays, clk, det, rnd) ==
    LET generated == [day \in 1..predictionDays |->
                         forecastPoint(track, modelType, parameters, historicalData,
                                       clk, day, det[day], rnd[day])]
        clamped == clampFrom(generated, 2, modelType, parameters)
        smoothed == outlierFrom(clamped, 3)
    IN  [generated |-> generated, clamped |-> clamped, smoothed |-> smoothed,
         predictions |-> dropFirst(smoothed)]

----------------------------------------------------------------------------
(* Scenario forecaster: the body of the earlier handleTrendAnalysis, lines *)
(* 397-768.  The switch of lines 498-608 computes baseMultiplier from the  *)
(* scenario and day / predictionDays with exp, sin and pow; its value for  *)
(* a day is the entry base[day] of the computation's input, in hundredths  *)
(* (it is positive for every scenario).  Everything after the switch is    *)
(* computed as the code computes it.                                       *)
(***************************************************************************)
\* line 422: the age with the default release year 2020
scenarioAge(track, currentYear) ==
    currentYear - (IF track.releaseYear = 0 THEN 2020 ELSE track.releaseYear)

scenarioIsClassic(track, currentYear) == scenarioAge(track, currentYear) > 20
scenarioIsRecent(track, currentYear) == scenarioAge(track, currentYear) <= 3

\* lines 429-440
scenarios ==
    << "viral_breakthrough", "organic_growth", "cyclical_waves", "steady_momentum",
       "discovery_surge", "playlist_boost", "social_media_viral", "algorithm_pick",
       "comeback_story", "underground_rise" >>

\* lines 443-454, in hundredths.  popularity is track.popularity / 100 (line
\* 421), so "popularity > 70" reads track.popularity > 7000.
scenarioWeights(track, currentYear) ==
    LET age == scenarioAge(track, currentYear)
        recent == scenarioIsRecent(track, currentYear)
        classic == scenarioIsClassic(track, currentYear)
        pop == track.popularity
    IN  << IF recent /\ pop > 7000 THEN 25 ELSE 5,
           IF classic \/ pop > 6000 THEN 20 ELSE 15,
           IF classic THEN 25 ELSE 10,
           IF pop > 5000 THEN 20 ELSE 15,
           IF recent THEN 15 ELSE 5,
           IF isViral(track) THEN 20 ELSE 10,
           IF recent /\ isViral(track) THEN 30 ELSE 8,
           IF pop < 5000 THEN 15 ELSE 5,
           IF age > 10 /\ age < 30 THEN 20 ELSE 2,
           IF pop < 4000 THEN 15 ELSE 2 >>

\* a comparison of the draw with the cumulative weight before normalisation
reaches_Unnormalised(cumulative, totalWeight, random) == random * 100 <= cumulative * 1000

\* line 471: random <= cumulative, where cumulative is a sum of weights divided
\* by totalWeight (lines 457-463) and random is in thousandths
reaches(cumulative, totalWeight, random) == random * totalWeight <= cumulative * 1000

\* lines 456-476: the first scenario whose cumulative normalised weight
\* reaches the draw; "steady_momentum" when the loop ends without a break
RECURSIVE selectFrom(_, _, _, _)
selectFrom(weights, k, cumulative, random) ==
    IF k > Len(weights) THEN "steady_momentum"
    ELSE IF reaches(cumulative + weights[k], SumSeq(weights), random)
         THEN scenarios[k]
         ELSE selectFrom(weights, k + 1, cumulative + weights[k], random)

\* line 466: the draw is seededRandom(trackSeed)
selectedScenario(track, currentYear) ==
    selectFrom(scenarioWeights(track, currentYear), 1, 0, seededRandom(trackSeed(track)))

\* selectedScenario.includes("viral") || selectedScenario.includes("surge")
includesViralOrSurge(scenario) ==
    scenario \in {"viral_breakthrough", "social_media_viral", "discovery_surge"}

\* selectedScenario.includes("growth") || selectedScenario.includes("boost")
includesGrowthOrBoost(scenario) == scenario \in {"organic_growth", "playlist_boost"}

\* lines 722-735, in hundredths
scenarioMaxChangePercent(scenario) ==
    IF includesViralOrSurge(scenario) THEN 40
    ELSE IF includesGrowthOrBoost(scenario) THEN 30
    ELSE 25

\* volatilityMultiplier of the switch of lines 498-608, in hundredths
scenarioVolatility(scenario) ==
    CASE scenario = "viral_breakthrough" -> 130
      [] scenario = "organic_growth" -> 110
      [] scenario = "cyclical_waves" -> 115
      [] scenario = "steady_momentum" -> 105
      [] scenario = "discovery_surge" -> 120
      [] scenario = "playlist_boost" -> 125
      [] scenario = "social_media_viral" -> 140
      [] scenario = "algorithm_pick" -> 110
      [] scenario = "comeback_story" -> 120
      [] scenario = "underground_rise" -> 115

\* trendDirection > 0.9 of line 685, from the switch of lines 498-608
\* (dayProgress = day / predictionDays)
trendDirectionUp(scenario, day, predictionDays) ==
    CASE scenario = "viral_breakthrough" -> 10 * day < 6 * predictionDays
      [] scenario = "cyclical_waves" ->
            \* Math.sin(dayProgress * 6 * Math.PI) > 0
            LET r == (3 * day) % predictionDays IN r > 0 /\ 2 * r < predictionDays
      [] scenario = "social_media_viral" -> 10 * day < 3 * predictionDays
      [] OTHER -> TRUE

\* lines 610-629: the modifiers of baseMultiplier, in ten-thousandths
scenarioBaseMultiplier(track, currentYear, scenario, base, dailyRandom) ==
    LET b0 == base * 100
        b1 == IF isViral(track) /\ scenario # "steady_momentum"
              THEN (b0 * 11) \div 10 ELSE b0
        b2 == IF scenarioIsClassic(track, currentYear) THEN (b1 + 10000) \div 2 ELSE b1
    IN  IF scenarioIsRecent(track, currentYear) /\ track.popularity > 8000
           /\ dailyRandom > 850
        THEN (b2 * 3) \div 2 ELSE b2

\* lines 610-629: the modifiers of volatilityMultiplier, in ten-thousandths
scenarioVolatilityMultiplier(track, currentYear, scenario) ==
    LET v0 == scenarioVolatility(scenario) * 100
        v1 == IF isViral(track) /\ scenario # "steady_momentum"
              THEN (v0 * 115) \div 100 ELSE v0
        v2 == IF scenarioIsClassic(track, currentYear) THEN (v1 * 85) \div 100 ELSE v1
    IN  IF scenarioIsRecent(track, currentYear) /\ track.popularity > 8000
        THEN (v2 * 120) \div 100 ELSE v2

\* lines 631-642, in hundredths
timeMultiplier(localDay) ==
    IF getDay(localDay) \in {0, 6} THEN 115
    ELSE IF getDay(localDay) = 5 THEN 108
    ELSE 96

\* lines 644-660, in thousandths; twiceAverage is 2 * recentAverage
momentumMultiplier(predictions, day, twiceAverage) ==
    IF day > 3
    THEN LET L == Len(predictions)
             \* 3 * recentGrowth
             growth == predictions[L].infected - predictions[L - 2].infected
             den == 3 * twiceAverage
         IN  IF growth <= 0 THEN 1000
             ELSE IF growth >= den THEN 1200
             ELSE IF den >= 20000 THEN 1000 + Min(200, growth \div (den \div 200))
             ELSE 1000 + (200 * growth) \div den
    ELSE 1000

\* historicalData.slice(-7), line 415
lastSeven(historicalData) ==
    SubSeq(historicalData, Max(1, Len(historicalData) - 6), Len(historicalData))

\* One iteration of the loop of lines 483-714: the point pushed for a day,
\* given the points pushed before it
scenarioPoint(track, modelType, parameters, historicalData, predictionDays, clk, day, base, predictions) ==
    LET N == parameters.totalPopulation
        recent == lastSeven(historicalData)
        \* 2 * recentAverage, for a history tail of two points
        twiceAverage == (2 * SumSeq(infectedOf(recent))) \div Len(recent)
        scenario == selectedScenario(track, clk.year)
        dailyRandom == seededRandom(trackSeed(track) + day * 13)
        x1 == MulDiv(twiceAverage,
                     scenarioBaseMultiplier(track, clk.year, scenario, base, dailyRandom),
                     10000)
        x2 == MulDiv(x1, scenarioVolatilityMultiplier(track, clk.year, scenario), 10000)
        \* noiseFactor = 0.95 + dailyRandom * 0.1
        x3 == MulDiv(x2, 9500 + dailyRandom, 10000)
        x4 == MulDiv(x3, timeMultiplier(clk.day + day), 100)
        x5 == MulDiv(x4, momentumMultiplier(predictions, day, twiceAverage), 1000)
        newInfected == Round(x5, 2)
        date == isoDate(clk, clk.day + day)
    IN  IF modelType = "SIS"
        THEN DataPoint(date, Max(0, N - newInfected), undefined,
                       floorInfected(newInfected), undefined, N)
        ELSE LET \* lines 684-688, exposureRate in ten-thousandths
                 exposureRate == 2000 + 30 * track.popularity
                                 + (IF trendDirectionUp(scenario, day, predictionDays)
                                    THEN 2000 ELSE 0)
                 newExposed == RoundMulDiv(MulDiv(newInfected, exposureRate, 10000),
                                           10 * predictionDays - 3 * day,
                                           10 * predictionDays)
                 \* lines 691-699
                 recoverySlowdown == IF includesViralOrSurge(scenario) THEN 7 ELSE 10
                 newRecovered == Max(0, RoundMulDiv(
                                     MulDiv(newInfected, predictionDays + 3 * day,
                                            2 * predictionDays),
                                     recoverySlowdown, 10))
                 newSusceptible == N - (newInfected + newExposed + newRecovered)
             IN  DataPoint(date, Max(0, newSusceptible), newExposed,
                           floorInfected(newInfected), 10 * newRecovered, N)

RECURSIVE scenarioGenerate(_, _, _, _, _, _, _, _)
scenarioGenerate(track, modelType, parameters, historicalData, predictionDays, clk, base, predictions) ==
    IF Len(predictions) = predictionDays THEN predictions
    ELSE scenarioGenerate(track, modelType, parameters, historicalData, predictionDays,
             clk, base,
             Append(predictions,
                    scenarioPoint(track, modelType, parameters, historicalData,
                                  predictionDays, clk, Len(predictions) + 1,
                                  base[Len(predictions) + 1], predictions)))

\* One iteration of the loop of lines 717-745: only infected is rewritten
scenarioClampAt(predictions, i, maxPercent) ==
    LET prev == predictions[i - 1].infected
        curr == predictions[i].infected
        direction == IF curr > prev THEN 1 ELSE 0 - 1
    IN  IF Abs(curr - prev) > MulDiv(prev, maxPercent, 100)
        THEN [predictions EXCEPT ![i].infected =
                 RoundMulDiv(prev, 100 + maxPercent * direction, 100)]
        ELSE predictions

RECURSIVE scenarioClampFrom(_, _, _)
scenarioClampFrom(predictions, i, maxPercent) ==
    IF i > Len(predictions) THEN predictions
    ELSE scenarioClampFrom(scenarioClampAt(predictions, i, maxPercent), i + 1, maxPercent)

\* The scenario forecast of one request: the series after each stage
scenarioForecast(track, modelType, parameters, historicalData, predictionDays, clk, base) ==
    LET generated == scenarioGenerate(track, modelType, parameters, historicalData,
                                      predictionDays, clk, base, <<>>)
        clamped == scenarioClampFrom(generated, 2,
                       scenarioMaxChangePercent(selectedScenario(track, clk.year)))
        smoothed == outlierFrom(clamped, 3)
    IN  [generated |-> generated, clamped |-> clamped, smoothed |-> smoothed,
         predictions |-> dropFirst(smoothed)]

----------------------------------------------------------------------------
(* Insight analyzer: analyzeInsights, lines 1228-1321 (the earlier         *)
(* generation, lines 245-338, computes the same metrics).  A quotient of   *)
(* the code is kept as the pair of its numerator and denominator; a        *)
(* denominator 0 marks a value that is not finite in JavaScript: NaN       *)
(* (num = 0), -Infinity (num < 0) or Infinity (num > 0).                    *)
(***************************************************************************)
Quotient(num, den) == [num |-> num, den |-> den]
NaN == Quotient(0, 0)
MinusInfinity == Quotient(0 - 1, 0)
isFinite(q) == q.den # 0

\* x * m for x, m >= 0 as a pair of 16-bit limbs, so that it cannot overflow
wide(x, m) ==
    LET lo == (x % 65536) * m
    IN  [hi |-> (x \div 65536) * m + lo \div 65536, lo |-> lo % 65536]

wideLess(u, v) == u.hi < v.hi \/ (u.hi = v.hi /\ u.lo < v.lo)

\* q > n / d; false for NaN and for -Infinity, as in JavaScript
exceeds(q, n, d) ==
    \/ q.den = 0 /\ q.num > 0
    \/ q.den > 0 /\ wideLess(wide(q.den, n), wide(q.num, d))

\* q < n / d; false for NaN, true for -Infinity
below(q, n, d) ==
    \/ q.den = 0 /\ q.num < 0
    \/ q.den > 0 /\ wideLess(wide(q.num, d), wide(q.den, n))

RECURSIVE MaxOf(_)
MaxOf(s) == IF Len(s) = 1 THEN s[1] ELSE Max(Head(s), MaxOf(Tail(s)))

RECURSIVE MinOf(_)
MinOf(s) == IF Len(s) = 1 THEN s[1] ELSE Min(Head(s), MinOf(Tail(s)))

\* sum / length of the infected values of a series: the sum over the length
averageOf(series) == Quotient(SumSeq(infectedOf(series)), Len(series))

\* a / b for two averages
averageRatio(a, b) ==
    IF a.den = 0 \/ b.den = 0 \/ b.num = 0 THEN NaN
    ELSE Quotient(a.num * b.den, b.num * a.den)

\* lines 1259-1280: the metrics of the predicted series
trendMetrics(data, predictions) ==
    LET \* data[data.length - 1]?.infected || 0
        currentListeners == IF data = <<>> THEN 0 ELSE data[Len(data)].infected
        values == infectedOf(predictions)
        empty == predictions = <<>>
        futureEnd == IF empty \/ predictions[Len(predictions)].infected = 0
                     THEN currentListeners
                     ELSE predictions[Len(predictions)].infected
        futureAverage == averageOf(predictions)
        half == Len(predictions) \div 2
        firstHalfAvg == averageOf(SubSeq(predictions, 1, half))
        secondHalfAvg == averageOf(SubSeq(predictions, half + 1, Len(predictions)))
    IN  [currentListeners |-> currentListeners,
         futureMax |-> IF empty THEN MinusInfinity ELSE Quotient(MaxOf(values), 1),
         growthPotential |->
             IF empty THEN (IF currentListeners = 0 THEN NaN ELSE MinusInfinity)
             ELSE Quotient(MaxOf(values), currentListeners),
         volatilityFactor |->
             IF empty \/ futureAverage.num = 0 THEN NaN
             ELSE Quotient((MaxOf(values) - MinOf(values)) * futureAverage.den,
                           futureAverage.num),
         endTrend |-> Quotient(futureEnd, currentListeners),
         overallTrend |->
             IF empty THEN NaN
             ELSE Quotient(futureAverage.num, currentListeners * futureAverage.den),
         momentum |-> averageRatio(secondHalfAvg, firstHalfAvg)]

\* an if-chain that tests "comeback_likely" before everything else
futureOutlook_ComebackFirst(m) ==
    IF /\ exceeds(m.volatilityFactor, 4, 10)
       /\ m.futureMax.den > 0
       /\ wideLess(wide(m.currentListeners, 7), wide(m.futureMax.num, 5))
    THEN "comeback_likely"
    ELSE IF exceeds(m.growthPotential, 25, 10) /\ exceeds(m.volatilityFactor, 8, 10)
    THEN "explosive_growth"
    ELSE IF exceeds(m.growthPotential, 16, 10) /\ exceeds(m.momentum, 11, 10)
    THEN "viral_potential"
    ELSE IF exceeds(m.overallTrend, 12, 10) /\ exceeds(m.momentum, 19, 20)
    THEN "sustained_momentum"
    ELSE IF /\ below(m.endTrend, 8, 10) /\ below(m.momentum, 9, 10)
            /\ below(m.growthPotential, 11, 10)
    THEN "steady_decline"
    ELSE "stable_niche"

\* an if-chain that tests "sustained_momentum" before "viral_potential"
futureOutlook_SustainedBeforeViral(m) ==
    IF exceeds(m.growthPotential, 25, 10) /\ exceeds(m.volatilityFactor, 8, 10)
    THEN "explosive_growth"
    ELSE IF exceeds(m.overallTrend, 12, 10) /\ exceeds(m.momentum, 19, 20)
    THEN "sustained_momentum"
    ELSE IF exceeds(m.growthPotential, 16, 10) /\ exceeds(m.momentum, 11, 10)
    THEN "viral_potential"
    ELSE IF /\ below(m.endTrend, 8, 10) /\ below(m.momentum, 9, 10)
            /\ below(m.growthPotential, 11, 10)
    THEN "steady_decline"
    ELSE IF /\ exceeds(m.volatilityFactor, 4, 10)
            /\ m.futureMax.den > 0
            /\ wideLess(wide(m.currentListeners, 7), wide(m.futureMax.num, 5))
    THEN "comeback_likely"
    ELSE "stable_niche"

\* lines 1291-1303: the if-chain over the metrics
futureOutlook(m) ==
    IF exceeds(m.growthPotential, 25, 10) /\ exceeds(m.volatilityFactor, 8, 10)
    THEN "explosive_growth"
    ELSE IF exceeds(m.growthPotential, 16, 10) /\ exceeds(m.momentum, 11, 10)
    THEN "viral_potential"
    ELSE IF exceeds(m.overallTrend, 12, 10) /\ exceeds(m.momentum, 19, 20)
    THEN "sustained_momentum"
    ELSE IF /\ below(m.endTrend, 8, 10) /\ below(m.momentum, 9, 10)
            /\ below(m.growthPotential, 11, 10)
    THEN "steady_decline"
    ELSE IF /\ exceeds(m.volatilityFactor, 4, 10)
            /\ m.futureMax.den > 0
            /\ wideLess(wide(m.currentListeners, 7), wide(m.futureMax.num, 5))
    THEN "comeback_likely"
    ELSE "stable_niche"

\* The part of analyzeInsights that reads the predicted series: the metrics
\* (locals of the function) and the returned futureOutlook
analyzeInsights(data, predictions) ==
    LET m == trendMetrics(data, predictions)
    IN  [metrics |-> m, futureOutlook |-> futureOutlook(m)]

\* lines 1641-1646: the insights of a forecast
withInsights(run, data) ==
    [generated |-> run.generated, clamped |-> run.clamped, smoothed |-> run.smoothed,
     predictions |-> run.predictions,
     insights |-> analyzeInsights(data, run.predictions)]

----------------------------------------------------------------------------
(* The history handed to the forecast.  simulateSIS and simulateSEIR run   *)
(* with noise enabled (Math.random), so the history of a request is one of *)
(* many; the forecast reads its last points only.                          *)
(***************************************************************************)
\* The last two points of the 181-point history, which ends at the present
\* day.  simulateSIS reports 1 <= infected <= N and 0 <= susceptible <= N;
\* simulateSEIR reports infected >= 1 and the other compartments >= 0.
historyTail(clk, prevPoint, lastPoint) ==
    << [prevPoint EXCEPT !.date = isoDate(clk, clk.day - 1)],
       [lastPoint EXCEPT !.date = isoDate(clk, clk.day)] >>

HistoryTails(modelType, parameters, clk) ==
    LET N == parameters.totalPopulation
        I0 == parameters.initialInfected
    IN  IF modelType = "SIS"
        THEN { \* a song at its endemic level, reported at the population cap
               historyTail(clk, DataPoint(0, 0, undefined, N, undefined, N),
                                DataPoint(0, 0, undefined, N, undefined, N)),
               \* a falling audience
               historyTail(clk,
                   DataPoint(0, N - I0 - 20000, undefined, I0 + 20000, undefined, N),
                   DataPoint(0, N - I0, undefined, I0, undefined, N)) }
        ELSE { \* past the peak: most of the population recovered
               historyTail(clk,
                   DataPoint(0, N \div 20, 2000, N \div 3 + 20000, 10 * (N \div 2), N),
                   DataPoint(0, N \div 20, 1800, N \div 3, 10 * (N \div 2 + 15000), N)),
               \* early: most of the population susceptible
               historyTail(clk,
                   DataPoint(0, N - 4 * I0, I0, I0, 10 * (N \div 100), N),
                   DataPoint(0, N - 4 * I0, I0, I0, 10 * (N \div 100), N)),
               \* late, on days whose seasonalFactor * noiseFactor is 1.3
               \* (lines 955-962 report every compartment times that factor):
               \* nobody susceptible, 1%, 50% and 49% of the population in the
               \* other compartments
               historyTail(clk,
                   DataPoint(0, 0, 13 * (N \div 1000), 65 * (N \div 100),
                             10 * 637 * (N \div 1000), N),
                   DataPoint(0, 0, 13 * (N \div 1000), 65 * (N \div 100),
                             10 * 637 * (N \div 1000), N)) }

----------------------------------------------------------------------------
(* Compartmental integrators: simulateSIS (lines 801-872) and simulateSEIR *)
(* (lines 875-991) with addNoise = false, so seasonalFactor = noiseFactor  *)
(* = 1.  The compartments S, E, I, R are doubles in the code and           *)
(* thousandths of a listener here; the rates are used in thousandths.      *)
(* Each flow of a sub-step is computed once and moved from one compartment *)
(* to the next, so the arithmetic of the model conserves the sum exactly   *)
(* and only the code's own floors and caps can change it.                  *)
(***************************************************************************)
\* one listener, in the unit of the compartments
Listener == 10 * 100

\* dt = 0.1 and stepsPerDay = Math.floor(1 / dt), lines 813-814 and 927-928
stepsPerDay == 10

perMille(rate) == rate \div 1000

\* (currentBeta * S * I) / totalPopulation * dt
infectionFlow(params, S, I) ==
    MulDiv(MulDiv(S, I, params.totalPopulation * Listener), perMille(params.beta), 1000)
        \div stepsPerDay

\* currentGamma * I * dt
recoveryFlow(params, I) == MulDiv(I, perMille(params.gamma), 1000) \div stepsPerDay

\* currentSigma * E * dt with currentSigma = sigma * (0.8 + 0.4), line 968
incubationFlow(params, E) ==
    MulDiv(E, (perMille(params.sigma) * 12) \div 10, 1000) \div stepsPerDay

\* lines 809-810: the compartments of simulateSIS before the first day
initSIS(params) ==
    [S |-> (params.totalPopulation - params.initialInfected) * Listener,
     E |-> 0,
     I |-> params.initialInfected * Listener,
     R |-> 0]

\* a share that has no branch for older items
initialRecoveredShare_NoOlderBranch(track, currentYear) ==
    LET age == trackAge(track, currentYear)
        popularity == IF track.popularity = 0 THEN 50 ELSE track.popularity
    IN  IF age <= 1 /\ popularity > 60 THEN 1
        ELSE IF age <= 2 /\ popularity > 40 THEN 5
        ELSE 8

\* lines 886-916: the share of totalPopulation that starts in Recovered, in
\* hundredths
initialRecoveredShare(track, currentYear) ==
    LET age == trackAge(track, currentYear)
        \* (track?.popularity || 50), in hundredths
        popularity == IF track.popularity = 0 THEN 50 ELSE track.popularity
    IN  IF age <= 1 /\ popularity > 60 THEN 1
        ELSE IF age <= 2 /\ popularity > 40 THEN 5
        ELSE IF age > 10 THEN 20
        ELSE 8

\* lines 898, 904, 910, 916: R = Math.floor(totalPopulation * share), in listeners
initialRecovered(N, track, currentYear) ==
    (N * initialRecoveredShare(track, currentYear)) \div 100

\* lines 884-924: the compartments of simulateSEIR before the first day, in
\* the unit "one listener = listener units"
splitSEIR(params, track, currentYear, listener) ==
    LET N == params.totalPopulation
        I0 == params.initialInfected * listener
        age == trackAge(track, currentYear)
        \* (track?.popularity || 50), in hundredths
        popularity == IF track.popularity = 0 THEN 50 ELSE track.popularity
        R0 == initialRecovered(N, track, currentYear) * listener
        c == IF age <= 1 /\ popularity > 60
             THEN [I |-> (I0 * 15) \div 10, E |-> (I0 * 8) \div 10, R |-> R0]
             ELSE IF age <= 2 /\ popularity > 40
             THEN [I |-> (I0 * 12) \div 10, E |-> (I0 * 6) \div 10, R |-> R0]
             ELSE IF age > 10
             THEN [I |-> (I0 * 7) \div 10, E |-> (I0 * 3) \div 10, R |-> R0]
             ELSE [I |-> I0, E |-> ((I0 * 4) \div (10 * listener)) * listener,
                   R |-> R0]
    IN  [S |-> Max(0, N * listener - c.I - c.E - c.R),
         E |-> Max(0, c.E),
         I |-> Max(listener, c.I),
         R |-> Max(0, c.R)]

\* the same in the unit of the integrators
initSEIR(params, track, currentYear) == splitSEIR(params, track, currentYear, Listener)

\* lines 858-868: one sub-step of simulateSIS
stepSIS(params, c) ==
    LET cap == params.totalPopulation * Listener
        infection == infectionFlow(params, c.S, c.I)
        recovery == recoveryFlow(params, c.I)
    IN  [c EXCEPT !.S = Max(0, Min(cap, c.S + recovery - infection)),
                  !.I = Max(Listener, Min(cap, c.I + infection - recovery))]

\* a sub-step that does not floor Infected
stepSEIR_NoInfectedFloor(params, c) ==
    LET infection == infectionFlow(params, c.S, c.I)
        incubation == incubationFlow(params, c.E)
        recovery == recoveryFlow(params, c.I)
    IN  [S |-> Max(0, c.S - infection),
         E |-> Max(0, c.E + infection - incubation),
         I |-> c.I + incubation - recovery,
         R |-> Max(0, c.R + recovery)]

\* lines 971-987: one sub-step of simulateSEIR
stepSEIR(params, c) ==
    LET infection == infectionFlow(params, c.S, c.I)
        incubation == incubationFlow(params, c.E)
        recovery == recoveryFlow(params, c.I)
    IN  [S |-> Max(0, c.S - infection),
         E |-> Max(0, c.E + infection - incubation),
         I |-> Max(Listener, c.I + incubation - recovery),
         R |-> Max(0, c.R + recovery)]

\* lines 842-852: the point simulateSIS pushes for a day
pointSIS(params, c, date) ==
    LET N == params.totalPopulation
    IN  DataPoint(date, Max(0, Min(N, Round(c.S, Listener))), undefined,
                  Max(1, Min(N, Round(c.I, Listener))), undefined, N)

\* lines 955-964: the point simulateSEIR pushes for a day
pointSEIR(params, c, date) ==
    DataPoint(date, Max(0, Round(c.S, Listener)), Max(0, Round(c.E, Listener)),
              Max(1, Round(c.I, Listener)), 10 * Max(0, Round(c.R, Listener)),
              params.totalPopulation)

\* Math.sin((dayOfYear / 365) * 2 * Math.PI), in hundredths: a piecewise linear
\* stand-in with the period, the sign and the extremes of the sine
sine(dayOfYear) ==
    LET q == dayOfYear % 365
    IN  IF q < 91 THEN (q * 100) \div 91
        ELSE IF q < 274 THEN ((182 - q) * 100) \div 91
        ELSE ((q - 365) * 100) \div 91

\* lines 824-837 and 939-950: seasonalFactor of a local day, in hundredths; the
\* amplitude is 0.3 and the weekend factors 1.2 / 0.9 in simulateSIS, 0.2 and
\* 1.15 / 0.95 in simulateSEIR; 1 when addNoise is false
historySeasonalFactor(modelType, addNoise, localDay) ==
    LET weekend == getDay(localDay) \in {0, 6}
    IN  IF ~addNoise THEN 100
        ELSE IF modelType = "SIS"
        THEN ((100 + (30 * sine(localDay)) \div 100) * (IF weekend THEN 120 ELSE 90)) \div 100
        ELSE ((100 + (20 * sine(localDay)) \div 100) * (IF weekend THEN 115 ELSE 95)) \div 100

\* lines 840 and 953: noiseFactor of a day, in hundredths, from a draw of
\* Math.random() in thousandths; 1 when addNoise is false
historyNoiseFactor(modelType, addNoise, random) ==
    IF ~addNoise THEN 100
    ELSE IF modelType = "SIS" THEN 80 + (random * 40) \div 1000
    ELSE 85 + (random * 30) \div 1000

\* rates of a day that follow the noise as well
dayRates_Noisy(params, seasonal, noise) ==
    [params EXCEPT !.beta = MulDiv(MulDiv(@, seasonal, 100), noise, 100),
                   !.gamma = MulDiv(@, 100, seasonal),
                   !.sigma = MulDiv(@, 80 + (40 * seasonal) \div 100, 120)]

\* lines 855-856 and 967-969: currentBeta = beta * seasonalFactor,
\* currentGamma = gamma / seasonalFactor and, for incubationFlow, which
\* applies the factor 1.2 of seasonalFactor = 1, sigma * (0.8 + 0.4 *
\* seasonalFactor) / 1.2.  noiseFactor is in scope and is not read.
dayRates(params, seasonal, noise) ==
    [params EXCEPT !.beta = MulDiv(@, seasonal, 100),
                   !.gamma = MulDiv(@, 100, seasonal),
                   !.sigma = MulDiv(@, 80 + (40 * seasonal) \div 100, 120)]

\* S * seasonalFactor * noiseFactor and likewise for the other compartments
\* (lines 843-844 and 958-962)
scaled(c, seasonal, noise) ==
    [S |-> (c.S * seasonal * noise) \div 10000, E |-> (c.E * seasonal * noise) \div 10000,
     I |-> (c.I * seasonal * noise) \div 10000, R |-> (c.R * seasonal * noise) \div 10000]

\* the point a simulation pushes for a day
pointOf(modelType, params, c, date, seasonal, noise) ==
    IF modelType = "SIS" THEN pointSIS(params, scaled(c, seasonal, noise), date)
    ELSE pointSEIR(params, scaled(c, seasonal, noise), date)

----------------------------------------------------------------------------
(* Rest values of the variables a specification does not use *)

NoCall == [track |-> NoTrack, modelType |-> "none", env |-> Ambient(0, 0),
           result |-> [beta |-> 0, gamma |-> 0, sigma |-> 0,
                       initialInfected |-> 0, totalPopulation |-> 0]]
DerivedRest == [last |-> NoCall, prev |-> NoCall]
CacheRest == [id \in {"t1", "t2"} |-> NoTrack]
NoRequest == [trackId |-> "none", modelType |-> "none", predictionDays |-> 0,
              trackData |-> NoTrack]
ResponseRest == [request |-> NoRequest, replaced |-> NoTrack, status |-> 0,
                 body |-> [error |-> "none"]]
FcRest == [pc |-> "off"]
SimRest == [pc |-> "off"]
FoldRest == [pc |-> "off"]
InflightRest == <<>>
PickRest == [pc |-> "off"]
PageRest == [pc |-> "off"]
RecRest == [pc |-> "off"]

----------------------------------------------------------------------------
(* Specification of the route: requests handled one after another by       *)
(* handleTrendAnalysis (lines 1323-1662) over the module's trackCache      *)
(* (line 798).  response holds the last exchange: the request body, the    *)
(* status and body of the answer and, as a ghost, the cache entry the      *)
(* request's identifier had when the request arrived.  An absent trackData *)
(* is NoTrack.                                                             *)
(***************************************************************************)
TrackIds == {"t1", "t2"}
Payloads == {NoTrack, TestTrack, OtherT1Track, ClassicTrack}
RequestDays == {3}

\* The draws of one request: the deterministic multipliers of its days and
\* its stream of Math.random() draws
RequestDraws(n) ==
    { [det |-> [d \in 1..n |-> 100], rnd |-> [d \in 1..n |-> 0]],
      [det |-> [d \in 1..n |-> IF d % 2 = 1 THEN 130 ELSE 0 - 20],
       rnd |-> [d \in 1..n |-> 999]] }

\* a lookup that prefers the cached item to the payload
lookupTrack_CacheFirst(cache, trackId, trackData) ==
    IF cache[trackId] # NoTrack THEN cache[trackId] ELSE trackData

\* lines 1336-1342: the item of the request
lookupTrack(cache, trackId, trackData) ==
    IF trackData # NoTrack THEN trackData ELSE cache[trackId]

\* a cache with one slot shared by all identifiers
storeTrack_SharedSlot(cache, trackId, trackData) ==
    IF trackData # NoTrack THEN [id \in DOMAIN cache |-> trackData] ELSE cache

\* a cache that keeps the first item stored under an identifier
storeTrack_KeepFirst(cache, trackId, trackData) ==
    IF trackData # NoTrack /\ cache[trackId] = NoTrack
    THEN [cache EXCEPT ![trackId] = trackData] ELSE cache

\* lines 1336-1339: the cache after the request's payload is stored
storeTrack(cache, trackId, trackData) ==
    IF trackData # NoTrack THEN [cache EXCEPT ![trackId] = trackData] ELSE cache

\* a guard that lets a missing item through
isMissing_Never(track) == FALSE

\* line 1344: !track
isMissing(track) == track = NoTrack

\* The body of handleTrendAnalysis, lines 1323-1662.  It contains no await, so
\* a call runs to its end before the event loop starts another one.
handle(trackId, modelType, predictionDays, trackData) ==
    LET track == lookupTrack(trackCache, trackId, trackData)
        request == [trackId |-> trackId, modelType |-> modelType,
                    predictionDays |-> predictionDays, trackData |-> trackData]
    IN  /\ trackCache' = storeTrack(trackCache, trackId, trackData)
        /\ IF isMissing(track)
           THEN response' = [request |-> request, replaced |-> trackCache[trackId],
                             status |-> 404,
                             body |-> [error |-> "Track not found. Please search for the track again."]]
           ELSE LET parameters == generateModelParameters(track, modelType,
                                                          Ambient(clock.year, 0))
                IN  \E historicalData \in HistoryTails(modelType, parameters, clock),
                       draws \in RequestDraws(predictionDays) :
                      response' =
                        [request |-> request, replaced |-> trackCache[trackId],
                         status |-> 200,
                         body |->
                           LET run == withInsights(
                                   forecast(track, modelType, parameters,
                                            historicalData, predictionDays, clock,
                                            draws.det, draws.rnd),
                                   historicalData)
                           IN  [track |-> track, modelType |-> modelType,
                                parameters |-> parameters,
                                historicalData |-> historicalData,
                                predictions |-> run.predictions,
                                insights |-> [futureOutlook |->
                                                run.insights.futureOutlook]]]

HandleTrendAnalysis(trackId, modelType, predictionDays, trackData) ==
    /\ handle(trackId, modelType, predictionDays, trackData)
    /\ UNCHANGED <<clock, derived, fc, sim, fold, inflight, pick, page, rec>>

Init ==
    /\ clock = ClockStart
    /\ trackCache = CacheRest
    /\ response = ResponseRest
    /\ derived = DerivedRest
    /\ fc = FcRest
    /\ sim = SimRest
    /\ fold = FoldRest
    /\ inflight = InflightRest
    /\ pick = PickRest
    /\ page = PageRest
    /\ rec = RecRest

Next ==
    \E trackId \in TrackIds, modelType \in ModelTypes, predictionDays \in RequestDays,
       trackData \in Payloads :
        HandleTrendAnalysis(trackId, modelType, predictionDays, trackData)

Spec == Init /\ [][Next]_vars

\* C7: a request without payload whose identifier has no cache entry is
\* answered 404 with an error body only (no item, parameters, history or
\* forecast in it), and the cache is left unchanged.
C7_MissingItemNotFound ==
    [][(response'.request.trackData = NoTrack
        /\ trackCache[response'.request.trackId] = NoTrack)
       => (/\ response'.status = 404
           /\ DOMAIN response'.body = {"error"}
           /\ trackCache' = trackCache)]_vars

\* a 404 answer to a request without payload, while another identifier is cached
C7_Witness ==
    /\ response.status = 404
    /\ response.request.trackData = NoTrack
    /\ trackCache[response.request.trackId] = NoTrack
    /\ \E id \in TrackIds : trackCache[id] # NoTrack

\* C8: a request with a payload is analysed on the payload even if the cache
\* holds a different item under its identifier; the cache entry of the
\* identifier becomes the payload and all other cache entries are unchanged.
C8_PayloadPreferredAndCached ==
    [][response'.request.trackData # NoTrack
       => (/\ response'.status = 200
           /\ response'.body.track = response'.request.trackData
           /\ response'.body.parameters =
                 generateModelParameters(response'.request.trackData,
                                         response'.request.modelType,
                                         Ambient(clock.year, 0))
           /\ trackCache'[response'.request.trackId] = response'.request.trackData
           /\ \A id \in TrackIds \ {response'.request.trackId} :
                 trackCache'[id] = trackCache[id])]_vars

\* an answer computed on a payload that replaced a different cached item
C8_Witness ==
    /\ response.status = 200
    /\ response.request.trackData # NoTrack
    /\ response.replaced # NoTrack
    /\ response.replaced # response.request.trackData
    /\ response.body.track = response.request.trackData
    /\ \E id \in TrackIds \ {response.request.trackId} : trackCache[id] # NoTrack

----------------------------------------------------------------------------
(* Specification of the parameter deriver: calls of generateModelParameters *)
(* under a clock whose year may turn between them.                          *)

CallGenerateModelParameters(track, modelType, random) ==
    LET env == Ambient(clock.year, random)
    IN  /\ derived' = [last |-> [track |-> track, modelType |-> modelType,
                                 env |-> env,
                                 result |-> generateModelParameters(track, modelType, env)],
                       prev |-> derived.last]
        /\ UNCHANGED <<clock, trackCache, response, fc, sim, fold, inflight, pick, page, rec>>

\* the calendar year turns
NewYear ==
    /\ clock.year < FirstYear + MaxYearTurns
    /\ clock' = [clock EXCEPT !.year = @ + 1]
    /\ UNCHANGED <<trackCache, response, derived, fc, sim, fold, inflight, pick, page, rec>>

InitParams ==
    /\ clock = ClockStart
    /\ trackCache = CacheRest
    /\ response = ResponseRest
    /\ derived = DerivedRest
    /\ fc = FcRest
    /\ sim = SimRest
    /\ fold = FoldRest
    /\ inflight = InflightRest
    /\ pick = PickRest
    /\ page = PageRest
    /\ rec = RecRest

NextParams ==
    \/ \E track \in Tracks, modelType \in ModelTypes, random \in MathRandomDraws :
          CallGenerateModelParameters(track, modelType, random)
    \/ NewYear

SpecParams == InitParams /\ [][NextParams]_vars

\* two calls have been made for the same item and the same model variant
SameItemTwice ==
    /\ derived.prev # NoCall
    /\ derived.last.track = derived.prev.track
    /\ derived.last.modelType = derived.prev.modelType

\* C9 as stated: two calls of generateModelParameters with the same item and
\* the same model variant return identical beta, gamma, sigma, initial active
\* count and total population.
C9_SameItemSameParameters ==
    SameItemTwice => derived.last.result = derived.prev.result

\* C9 amended: two calls with the same item and the same model variant made
\* in the same calendar year return identical parameters, whatever the global
\* random source holds at either call.
C9_SameItemSameYearSameParameters ==
    (SameItemTwice /\ derived.last.env.year = derived.prev.env.year)
        => derived.last.result = derived.prev.result

\* two calls for the same item, variant and year under different states of
\* the global random source
C9_Witness ==
    /\ SameItemTwice
    /\ derived.last.env.year = derived.prev.env.year
    /\ derived.last.env.random # derived.prev.env.random
    /\ derived.last.result.totalPopulation > 0

\* C11: the rates returned by generateModelParameters lie inside the clamp
\* bounds of the variant: SIS beta in [0.001, 0.7] and gamma in [0.005, 0.12];
\* SEIR beta in [0.001, 0.8], gamma in [0.005, 0.1] and sigma in [0.02, 0.3].
C11_RatesInsideClampBounds ==
    derived.last # NoCall =>
        LET r == derived.last.result
        IN  IF derived.last.modelType = "SIS"
            THEN /\ 1000 <= r.beta /\ r.beta <= 700000
                 /\ 5000 <= r.gamma /\ r.gamma <= 120000
            ELSE /\ 1000 <= r.beta /\ r.beta <= 800000
                 /\ 5000 <= r.gamma /\ r.gamma <= 100000
                 /\ 20000 <= r.sigma /\ r.sigma <= 300000

\* a SEIR call whose raw beta was above the band, after a SIS call whose raw
\* beta was above the band
C11_Witness ==
    /\ derived.prev # NoCall
    /\ derived.prev.modelType = "SIS"
    /\ baseBeta(derived.prev.track, derived.prev.env.year) > 700000
    /\ derived.prev.result.beta = 700000
    /\ derived.last.modelType = "SEIR"
    /\ (baseBeta(derived.last.track, derived.last.env.year) * 12) \div 10 > 800000
    /\ derived.last.result.beta = 800000

----------------------------------------------------------------------------
(* Specification of the integrators: one call of simulateSIS or            *)
(* simulateSEIR, with noise disabled or enabled, run day by day and        *)
(* sub-step by sub-step next to a second run of the same call (sim.other)  *)
(* whose draws of Math.random differ.                                      *)
(* sub-step.  The call is the one of lines 1356-1379: the series starts    *)
(* sim.days before the present day.  sim.point is the last point pushed to *)
(* results, sim.previousDate the date of the point pushed before it and    *)
(* sim.emitted the length of results.  The                                 *)
(* population of the model is twenty listeners, so that the runs reach,    *)
(* within MaxSimDays, the floor of one listener that the code's runs       *)
(* reach within some two hundred days.                                     *)
(***************************************************************************)
MaxSimDays == 40

\* Rates at the corners of the clamp bounds of generateModelParameters
SimParameters ==
    { [beta |-> b, gamma |-> g, sigma |-> sg, initialInfected |-> 2,
       totalPopulation |-> 20] :
         b \in {1000, 800000}, g \in {5000, 100000}, sg \in {20000, 300000} }

SimTracks == {TestTrack, ClassicTrack, RegularTrack}

CallSimulate(modelType, params, addNoise, track) ==
    /\ sim.pc = "idle"
    /\ sim' = [pc |-> "push", modelType |-> modelType, params |-> params,
               addNoise |-> addNoise, seasonalFactor |-> 100, noiseFactor |-> 100,
               other |-> [noiseFactor |-> 100,
                          c |-> IF modelType = "SIS" THEN initSIS(params)
                                ELSE initSEIR(params, track, clock.year),
                          point |-> DataPoint(0, 0, undefined, 0, undefined, 0)],
               startDate |-> clock.day - MaxSimDays,
               days |-> MaxSimDays, day |-> 0, step |-> 0,
               emitted |-> 0, previousDate |-> 0,
               c |-> IF modelType = "SIS" THEN initSIS(params)
                     ELSE initSEIR(params, track, clock.year),
               point |-> DataPoint(0, 0, undefined, 0, undefined, 0)]
    /\ UNCHANGED <<clock, trackCache, response, derived, fc, fold, inflight, pick, page, rec>>

\* lines 816-852 and 930-964: the head of the loop over the days.  random is
\* the draw of Math.random() of this run, otherRandom the draw of the run
\* sim.other, which was called with the same arguments.
PushResult(random, otherRandom) ==
    /\ sim.pc = "push"
    /\ sim' = IF sim.day > sim.days
              THEN [sim EXCEPT !.pc = "returned"]
              ELSE LET localDay == sim.startDate + sim.day
                       date == isoDate(clock, localDay)
                       seasonal == historySeasonalFactor(sim.modelType, sim.addNoise,
                                                         localDay)
                       noise == historyNoiseFactor(sim.modelType, sim.addNoise, random)
                       otherNoise == historyNoiseFactor(sim.modelType, sim.addNoise,
                                                        otherRandom)
                   IN  [sim EXCEPT !.pc = "step", !.step = 0,
                           !.emitted = @ + 1, !.previousDate = sim.point.date,
                           !.seasonalFactor = seasonal, !.noiseFactor = noise,
                           !.point = pointOf(sim.modelType, sim.params, sim.c, date,
                                             seasonal, noise),
                           !.other = [noiseFactor |-> otherNoise, c |-> sim.other.c,
                                      point |-> pointOf(sim.modelType, sim.params,
                                                        sim.other.c, date, seasonal,
                                                        otherNoise)]]
    /\ UNCHANGED <<clock, trackCache, response, derived, fc, fold, inflight, pick, page, rec>>

\* lines 858-868 and 971-987: one running of a sub-step from the compartments c
eulerStep(modelType, params, seasonal, noise, c) ==
    IF modelType = "SIS" THEN stepSIS(dayRates(params, seasonal, noise), c)
    ELSE stepSEIR(dayRates(params, seasonal, noise), c)

\* lines 858-868 and 971-987: one pass of the loop over the sub-steps
EulerStep ==
    /\ sim.pc = "step"
    /\ sim' = IF sim.step < stepsPerDay
              THEN [sim EXCEPT !.step = @ + 1,
                       !.c = eulerStep(sim.modelType, sim.params, sim.seasonalFactor,
                                       sim.noiseFactor, sim.c),
                       !.other.c = eulerStep(sim.modelType, sim.params,
                                             sim.seasonalFactor, sim.other.noiseFactor,
                                             sim.other.c)]
              ELSE [sim EXCEPT !.pc = "push", !.day = @ + 1]
    /\ UNCHANGED <<clock, trackCache, response, derived, fc, fold, inflight, pick, page, rec>>

\* the clock of the process: UTC, or a zone five hours behind UTC in which
\* daylight saving time began three days ago, in the evening
SimClocks ==
    {ClockStart,
     [ClockStart EXCEPT !.tzStd = 0 - 5, !.hour = 19, !.dstStart = ClockStart.day - 3]}

InitSim ==
    /\ clock \in SimClocks
    /\ trackCache = CacheRest
    /\ response = ResponseRest
    /\ derived = DerivedRest
    /\ fc = FcRest
    /\ sim = [pc |-> "idle"]
    /\ fold = FoldRest
    /\ inflight = InflightRest
    /\ pick = PickRest
    /\ page = PageRest
    /\ rec = RecRest

NextSim ==
    \/ \E modelType \in ModelTypes, params \in SimParameters, addNoise \in BOOLEAN,
          track \in SimTracks :
          CallSimulate(modelType, params, addNoise, track)
    \/ \E random \in MathRandomDraws, otherRandom \in MathRandomDraws :
          PushResult(random, otherRandom)
    \/ EulerStep

SpecSim == InitSim /\ [][NextSim]_vars

\* C4: with noise disabled the compartments of every reported day sum to
\* totalPopulation within the rounding tolerance: 1 for SIS, 2 for SEIR.
C4_SimulationConserves ==
    (sim.pc \in {"step", "returned"} /\ ~sim.addNoise) =>
        IF sim.modelType = "SIS"
        THEN Abs(sim.point.susceptible + sim.point.infected
                 - sim.point.totalPopulation) <= 1
        ELSE Abs(10 * (sim.point.susceptible + sim.point.exposed + sim.point.infected
                       - sim.point.totalPopulation) + sim.point.recovered) <= 20

----------------------------------------------------------------------------
(* Specification of the forecast: the inputs of one request are drawn at   *)
(* the start, and the forecast is run on them, twice at most.              *)

\* The longest forecast horizon of the model (predictionDays)
MaxPredictionDays == 4

\* The products of the deterministic multipliers of a day, in hundredths
DetFactors == {0 - 20, 100, 130}

\* The values of baseMultiplier after the switch of lines 498-608, in hundredths
BaseMultipliers == {45, 100, 520}

Forecasters == {"dataDriven", "scenario"}

\* The streams of Math.random() draws of one run, in thousandths
RandomStreams(n) == {[d \in 1..n |-> 0], [d \in 1..n |-> 999]}

\* A server on UTC at noon; a server five hours behind UTC in a zone whose
\* daylight saving time begins three days from now, at 19:00 and at 10:00
Clocks ==
    {ClockStart,
     [ClockStart EXCEPT !.tzStd = 0 - 5, !.hour = 19, !.dstStart = ClockStart.day + 3],
     [ClockStart EXCEPT !.tzStd = 0 - 5, !.hour = 10, !.dstStart = ClockStart.day + 3]}

ForecastTracks == {TestTrack, ClassicTrack}

\* an item whose draw selects "playlist_boost"
PlaylistTrack == MusicTrack("t5", <<77, 65>>, <<73>>, 2024, {"Pop"}, 70)

\* items whose scenarios have the limits 25%, 40% and 30%
ScenarioTracks == {ClassicTrack, RegularTrack, PlaylistTrack}

RunForecast(rnd) ==
    /\ fc.pc = "ready"
    /\ fc.in.forecaster = "dataDriven"
    /\ Len(fc.runs) < 2
    /\ fc' = [fc EXCEPT !.runs = Append(@,
                 withInsights(
                     forecast(fc.in.track, fc.in.modelType, fc.in.parameters,
                              fc.in.historicalData, fc.in.predictionDays, fc.in.clk,
                              fc.in.det, rnd),
                     fc.in.historicalData))]
    /\ UNCHANGED <<clock, trackCache, response, derived, sim, fold, inflight, pick, page, rec>>

RunScenarioForecast ==
    /\ fc.pc = "ready"
    /\ fc.in.forecaster = "scenario"
    /\ Len(fc.runs) < 2
    /\ fc' = [fc EXCEPT !.runs = Append(@,
                 withInsights(
                     scenarioForecast(fc.in.track, fc.in.modelType, fc.in.parameters,
                                      fc.in.historicalData, fc.in.predictionDays,
                                      fc.in.clk, fc.in.det),
                     fc.in.historicalData))]
    /\ UNCHANGED <<clock, trackCache, response, derived, sim, fold, inflight, pick, page, rec>>

InitForecast ==
    /\ clock \in Clocks
    /\ trackCache = CacheRest
    /\ response = ResponseRest
    /\ derived = DerivedRest
    /\ sim = SimRest
    /\ fold = FoldRest
    /\ inflight = InflightRest
    /\ pick = PickRest
    /\ page = PageRest
    /\ rec = RecRest
    /\ \E forecaster \in Forecasters, modelType \in ModelTypes,
          n \in 1..MaxPredictionDays :
         \E track \in (IF forecaster = "dataDriven" THEN ForecastTracks
                        ELSE ScenarioTracks),
            det \in [1..n -> (IF forecaster = "dataDriven" THEN DetFactors
                              ELSE BaseMultipliers)] :
           LET parameters == generateModelParameters(track, modelType,
                                                     Ambient(clock.year, 0))
           IN  \E tail \in HistoryTails(modelType, parameters, clock) :
                 fc = [pc |-> "ready",
                       in |-> [forecaster |-> forecaster,
                               track |-> track, modelType |-> modelType,
                               parameters |-> parameters, historicalData |-> tail,
                               predictionDays |-> n, clk |-> clock, det |-> det],
                       runs |-> <<>>]

NextForecast ==
    \/ \E rnd \in RandomStreams(fc.in.predictionDays) : RunForecast(rnd)
    \/ RunScenarioForecast

SpecForecast == InitForecast /\ [][NextForecast]_vars

\* the series returned by the runs made so far
Returned == {fc.runs[k].predictions : k \in 1..Len(fc.runs)}

\* the series returned by the runs of the data-driven forecaster
ReturnedDataDriven == IF fc.in.forecaster = "dataDriven" THEN Returned ELSE {}

\* the configured limit of a run, in hundredths
maxPercentOf(in) ==
    IF in.forecaster = "dataDriven" THEN maxChangePercent
    ELSE scenarioMaxChangePercent(selectedScenario(in.track, in.clk.year))

conserves(point, modelType) ==
    IF modelType = "SIS"
    THEN Abs(point.susceptible + point.infected - point.totalPopulation) <= 1
    ELSE Abs(10 * (point.susceptible + point.exposed + point.infected
                   - point.totalPopulation) + point.recovered) <= 10

strictlyIncreasingDates(series) ==
    \A i \in 1..Len(series) - 1 : series[i].date < series[i + 1].date

\* C1: the forecast returns exactly predictionDays - 1 DataPoints whose dates
\* are strictly increasing.
C1_LengthAndDates ==
    \A series \in Returned :
        /\ Len(series) = fc.in.predictionDays - 1
        /\ strictlyIncreasingDates(series)

\* C2 as stated: after both smoothing passes every pair of adjacent returned
\* points has |infected[i] - infected[i-1]| <= infected[i-1] * maxPercent.
C2_AdjacentWithinLimit ==
    \A series \in Returned : \A i \in 2..Len(series) :
        Abs(series[i].infected - series[i - 1].infected)
            <= MulDiv(series[i - 1].infected, maxPercentOf(fc.in), 100)

\* C2 amended: after both smoothing passes every pair of adjacent returned
\* points has |infected[i] - infected[i-1]| <= infected[i-1] * maxPercent + 1/2:
\* the limit holds up to the rounding of the clamped value to a whole count.
C2_AdjacentWithinRoundedLimit ==
    \A series \in Returned : \A i \in 2..Len(series) :
        Abs(series[i].infected - series[i - 1].infected)
            <= RoundMulDiv(series[i - 1].infected, maxPercentOf(fc.in), 100)

\* a run whose clamp rewrote a returned point upwards and another downwards
\* and whose outlier blend rewrote a returned point
C2_Witness ==
    \E k \in 1..Len(fc.runs) :
        LET run == fc.runs[k]
        IN  /\ \E i \in 3..Len(run.generated) :
                 run.clamped[i].infected > run.clamped[i - 1].infected
                 /\ run.clamped[i].infected < run.generated[i].infected
            /\ \E i \in 3..Len(run.generated) :
                 run.clamped[i].infected < run.clamped[i - 1].infected
                 /\ run.clamped[i].infected > run.generated[i].infected
            /\ \E i \in 3..Len(run.generated) :
                 run.smoothed[i].infected # run.clamped[i].infected

\* C3: every returned point conserves population, up to a tolerance of 1.
C3_Conservation ==
    \A series \in ReturnedDataDriven : \A i \in 1..Len(series) :
        conserves(series[i], fc.in.modelType)

\* C5: every returned point has infected >= 1.
C5_InfectedAtLeastOne ==
    \A series \in Returned : \A i \in 1..Len(series) : series[i].infected >= 1

\* a returned point floored at 1 by the generator next to one rewritten by the clamp
C5_Witness ==
    \E k \in 1..Len(fc.runs) :
        LET run == fc.runs[k]
        IN  \E i, j \in 2..Len(run.generated) :
              /\ run.predictions[i - 1].infected = 1
              /\ run.clamped[j].infected # run.generated[j].infected

\* C6: every returned point has susceptible >= 0 and, for SEIR, exposed >= 0
\* and recovered >= 0.
C6_NonNegativeCompartments ==
    \A series \in ReturnedDataDriven : \A i \in 1..Len(series) :
        /\ series[i].susceptible >= 0
        /\ fc.in.modelType = "SEIR" =>
              (series[i].exposed >= 0 /\ series[i].recovered >= 0)

\* C10: two runs of the forecast on the same item, parameters, history,
\* predictionDays and date return identical predicted series.
C10_ForecastDeterministic ==
    Len(fc.runs) = 2 => fc.runs[1].predictions = fc.runs[2].predictions


\* the metrics of the insights of the runs made so far
Metrics == {fc.runs[k].insights.metrics : k \in 1..Len(fc.runs)}

\* C12: for every positive predictionDays no division of analyzeInsights
\* divides by zero or by the length of an empty series, so growth potential,
\* volatility factor, momentum, end trend and overall trend are always finite.
C12_MetricsFinite ==
    \A m \in Metrics :
        /\ isFinite(m.growthPotential)
        /\ isFinite(m.volatilityFactor)
        /\ isFinite(m.momentum)
        /\ isFinite(m.endTrend)
        /\ isFinite(m.overallTrend)

\* C13: the future outlook is "explosive_growth" whenever the maximum
\* predicted infected exceeds 2.5 times the current infected and the
\* volatility factor exceeds 0.8, whatever the other metrics are.
C13_ExplosiveGrowth ==
    \A k \in 1..Len(fc.runs) :
        LET values == infectedOf(fc.runs[k].predictions)
            current == fc.in.historicalData[Len(fc.in.historicalData)].infected
        IN  (/\ values # <<>>
             /\ 2 * MaxOf(values) > 5 * current
             /\ 5 * (MaxOf(values) - MinOf(values)) * Len(values) > 4 * SumSeq(values))
            => fc.runs[k].insights.futureOutlook = "explosive_growth"

\* a run whose predicted maximum is above 2.5 times the current infected, whose
\* volatility factor is above 0.8 and above 0.4, and whose outlook is
\* "explosive_growth"
C13_Witness ==
    \E k \in 1..Len(fc.runs) :
        LET values == infectedOf(fc.runs[k].predictions)
            current == fc.in.historicalData[Len(fc.in.historicalData)].infected
        IN  /\ values # <<>>
            /\ 2 * MaxOf(values) > 5 * current
            /\ 5 * (MaxOf(values) - MinOf(values)) * Len(values) > 4 * SumSeq(values)
            /\ fc.runs[k].insights.futureOutlook = "explosive_growth"

\* the last two calls were made in the same year for the SEIR variant: the
\* earlier for an item of popularity 30 released 25 years before, the later
\* for the otherwise identical item released in the current year
ClassicThenSameItemNew ==
    /\ derived.prev # NoCall
    /\ derived.prev.modelType = "SEIR"
    /\ derived.last.modelType = "SEIR"
    /\ derived.prev.env.year = derived.last.env.year
    /\ trackAge(derived.prev.track, derived.prev.env.year) = 25
    /\ derived.prev.track.popularity = 30
    /\ derived.last.track =
           [derived.prev.track EXCEPT !.releaseYear = derived.last.env.year]

\* C14: for the SEIR variant an item released 25 years before the current
\* year with popularity 30 is classic: its gamma is 0.8 times a value in the
\* classic range [0.02, 0.04] and lies inside the SEIR clamp band [0.005, 0.1],
\* and its initial Recovered is a larger share of totalPopulation than that
\* of the otherwise identical item released in the current year (the two have
\* the same totalPopulation).
C14_ClassicGammaAndRecovered ==
    ClassicThenSameItemNew =>
        LET old == derived.prev
            new == derived.last
            year == old.env.year
        IN  /\ isClassic(old.track, year)
            /\ 8 * 20000 <= 10 * old.result.gamma + 9
            /\ 10 * old.result.gamma <= 8 * 40000
            /\ 5000 <= old.result.gamma /\ old.result.gamma <= 100000
            /\ old.result.totalPopulation = new.result.totalPopulation
            /\ initialRecovered(old.result.totalPopulation, old.track, year)
                   > initialRecovered(new.result.totalPopulation, new.track, year)

\* the two calls have been made, and the older item starts with a fifth of
\* the population in Recovered
C14_Witness ==
    /\ ClassicThenSameItemNew
    /\ initialRecovered(derived.prev.result.totalPopulation, derived.prev.track,
                        derived.prev.env.year)
           = derived.prev.result.totalPopulation \div 5

\* C15: the returned predicted series starts on the day after the current
\* date: its first DataPoint is dated exactly one day after the last DataPoint
\* of the historical series, which ends at the present day.
C15_StartsDayAfterNow ==
    LET data == fc.in.historicalData
    IN  /\ data[Len(data)].date = isoDate(fc.in.clk, fc.in.clk.day)
        /\ \A series \in Returned :
              series # <<>> => series[1].date = data[Len(data)].date + 1

----------------------------------------------------------------------------
(* The seed of an item, one character at a time: the reduce of lines       *)
(* 998-1001 (generateModelParameters) and of lines 401-404 (the scenario   *)
(* forecaster in handleTrendAnalysis).                                     *)
(***************************************************************************)
MaxNameLen == 3

\* UTF-16 code units: "z" and the largest one
CharCodes == {122, 65535}

Names == UNION {[1..k -> CharCodes] : k \in 0..MaxNameLen}

\* the two places that compute the seed
Sites == {"generateModelParameters", "handleTrendAnalysis"}

\* (track.title + track.artist).split(""), and the initial value 0
BeginReduce(site) ==
    /\ fold.pc = "idle"
    /\ site \notin DOMAIN fold.seeds
    /\ fold' = [fold EXCEPT !.pc = "reduce", !.site = site,
                            !.text = fold.title \o fold.artist, !.pos = 0, !.acc = 0]
    /\ UNCHANGED <<clock, trackCache, response, derived, fc, sim, inflight, pick, page, rec>>

\* one call of the reducer
ReduceChar ==
    /\ fold.pc = "reduce"
    /\ fold.pos < Len(fold.text)
    /\ fold' = [fold EXCEPT !.pos = @ + 1,
                            !.acc = hashStep(fold.acc, fold.text[fold.pos + 1])]
    /\ UNCHANGED <<clock, trackCache, response, derived, fc, sim, inflight, pick, page, rec>>

\* const trackSeed = the value of the reduce
EndReduce ==
    /\ fold.pc = "reduce"
    /\ fold.pos = Len(fold.text)
    /\ fold' = [fold EXCEPT !.pc = "idle",
                            !.seeds = fold.seeds @@ (fold.site :> fold.acc)]
    /\ UNCHANGED <<clock, trackCache, response, derived, fc, sim, inflight, pick, page, rec>>

InitSeed ==
    /\ clock = ClockStart
    /\ trackCache = CacheRest
    /\ response = ResponseRest
    /\ derived = DerivedRest
    /\ fc = FcRest
    /\ sim = SimRest
    /\ inflight = InflightRest
    /\ pick = PickRest
    /\ page = PageRest
    /\ rec = RecRest
    /\ \E title \in Names, artist \in Names :
         fold = [pc |-> "idle", title |-> title, artist |-> artist,
                 site |-> "none", text |-> <<>>, pos |-> 0, acc |-> 0,
                 seeds |-> <<>>]

NextSeed ==
    \/ \E site \in Sites : BeginReduce(site)
    \/ ReduceChar
    \/ EndReduce

SpecSeed == InitSeed /\ [][NextSeed]_vars

\* A 32-bit pattern as its two 16-bit halves
Word(hi, lo) == [hi |-> hi, lo |-> lo]

\* w * m modulo 2^32, for 0 <= m <= 256
timesSmall(w, m) ==
    LET lo == w.lo * m
    IN  Word((w.hi * m + lo \div 65536) % 65536, lo % 65536)

\* u + v modulo 2^32
plus(u, v) ==
    LET lo == u.lo + v.lo
    IN  Word((u.hi + v.hi + lo \div 65536) % 65536, lo % 65536)

\* w * c modulo 2^32, for a code unit c
times(w, c) ==
    plus(timesSmall(timesSmall(w, c \div 256), 256), timesSmall(w, c % 256))

\* 31^k modulo 2^32
RECURSIVE power31(_)
power31(k) == IF k = 0 THEN Word(0, 1) ELSE timesSmall(power31(k - 1), 31)

\* s[1] * 31^(n-1) + s[2] * 31^(n-2) + ... + s[n], modulo 2^32
RECURSIVE polynomialHash(_)
polynomialHash(s) ==
    IF s = <<>> THEN Word(0, 0)
    ELSE plus(times(power31(Len(s) - 1), Head(s)), polynomialHash(Tail(s)))

\* the pattern read as a signed integer
signed(w) == (IF w.hi >= 32768 THEN w.hi - 65536 ELSE w.hi) * 65536 + w.lo

inInt32Range(a) == 0 - 2147483647 - 1 <= a /\ a <= 2147483647

\* C16: the seed is the fold of the characters of title followed by artist
\* with acc = (acc << 5) - acc + charCode wrapped to signed 32 bits at every
\* step: it equals the multiplier-31 polynomial hash modulo 2^32 read as a
\* signed integer, it lies in [-2^31, 2^31 - 1] at every step, and the two
\* places that compute it get the same seed for the same item.
C16_SeedIsPolynomialHash ==
    /\ inInt32Range(fold.acc)
    /\ fold.pc = "reduce" =>
           fold.acc = signed(polynomialHash(SubSeq(fold.text, 1, fold.pos)))
    /\ \A site \in DOMAIN fold.seeds :
           /\ inInt32Range(fold.seeds[site])
           /\ fold.seeds[site] = signed(polynomialHash(fold.title \o fold.artist))
    /\ \A a, b \in DOMAIN fold.seeds : fold.seeds[a] = fold.seeds[b]

\* both places have computed the seed of an item with a title and an artist,
\* and the seed has wrapped to a negative value
C16_Witness ==
    /\ DOMAIN fold.seeds = Sites
    /\ fold.title # <<>>
    /\ fold.artist # <<>>
    /\ fold.seeds["generateModelParameters"] < 0

----------------------------------------------------------------------------
(* Concurrent requests.  The server has received one request from each of  *)
(* three clients; the event loop runs the handlers one at a time, in any   *)
(* order (handleTrendAnalysis has no await).                               *)
(***************************************************************************)
Clients == {"c1", "c2", "c3"}

\* the requests a client may have sent
ClientRequests ==
    [trackId : TrackIds, modelType : {"SIS"}, predictionDays : RequestDays,
     trackData : {NoTrack, TestTrack, OtherT1Track}]

\* the number of requests served so far
served == Cardinality({c \in Clients : inflight[c].pc = "done"})

\* the event loop runs the handler of a pending request
Serve(c) ==
    /\ inflight[c].pc = "pending"
    /\ handle(inflight[c].request.trackId, inflight[c].request.modelType,
              inflight[c].request.predictionDays, inflight[c].request.trackData)
    /\ inflight' = [inflight EXCEPT ![c] =
                       [request |-> inflight[c].request, pc |-> "done",
                        order |-> served + 1,
                        status |-> response'.status,
                        track |-> IF response'.status = 200
                                  THEN response'.body.track ELSE NoTrack,
                        parameters |-> IF response'.status = 200
                                       THEN response'.body.parameters ELSE NoCall]]
    /\ UNCHANGED <<clock, derived, fc, sim, fold, pick, page, rec>>

InitConcurrent ==
    /\ clock = ClockStart
    /\ trackCache = CacheRest
    /\ response = ResponseRest
    /\ derived = DerivedRest
    /\ fc = FcRest
    /\ sim = SimRest
    /\ fold = FoldRest
    /\ pick = PickRest
    /\ page = PageRest
    /\ rec = RecRest
    /\ \E requests \in [Clients -> ClientRequests] :
         inflight = [c \in Clients |->
                        [request |-> requests[c], pc |-> "pending", order |-> 0,
                         status |-> 0, track |-> NoTrack, parameters |-> NoCall]]

NextConcurrent == \E c \in Clients : Serve(c)

SpecConcurrent == InitConcurrent /\ [][NextConcurrent]_vars

\* the requests with a payload for the identifier of c that ran before c
storedBefore(c) ==
    {d \in Clients : /\ inflight[d].pc = "done"
                     /\ inflight[d].order < inflight[c].order
                     /\ inflight[d].request.trackId = inflight[c].request.trackId
                     /\ inflight[d].request.trackData # NoTrack}

\* the payload of c or, when it has none, the last payload stored for its
\* identifier before it ran
ownItem(c) ==
    IF inflight[c].request.trackData # NoTrack THEN inflight[c].request.trackData
    ELSE IF storedBefore(c) = {} THEN NoTrack
    ELSE LET d == CHOOSE d \in storedBefore(c) :
                      \A e \in storedBefore(c) : inflight[e].order <= inflight[d].order
         IN  inflight[d].request.trackData

\* C17: under every interleaving of the requests, the outcome of a request
\* depends only on its own payload or, when it has none, on the last payload
\* stored for its own identifier before it ran; requests for other
\* identifiers do not change it.
C17_RequestsIndependent ==
    \A c \in Clients :
        inflight[c].pc = "done" =>
            IF ownItem(c) = NoTrack
            THEN inflight[c].status = 404
            ELSE /\ inflight[c].status = 200
                 /\ inflight[c].track = ownItem(c)
                 /\ inflight[c].parameters =
                        generateModelParameters(ownItem(c), inflight[c].request.modelType,
                                                Ambient(clock.year, 0))

\* a request without payload that ran last and was answered from the payload
\* of the first request, after a request for the other identifier had stored
\* a different item in between
C17_Witness ==
    \E c, d, e \in Clients :
        /\ inflight[c].pc = "done" /\ inflight[c].order = 3
        /\ inflight[d].order = 1 /\ inflight[e].order = 2
        /\ inflight[c].request.trackData = NoTrack
        /\ inflight[d].request.trackId = inflight[c].request.trackId
        /\ inflight[e].request.trackId # inflight[c].request.trackId
        /\ inflight[d].request.trackData # NoTrack
        /\ inflight[e].request.trackData # NoTrack
        /\ inflight[e].request.trackData # inflight[d].request.trackData
        /\ inflight[c].status = 200
        /\ inflight[c].track = inflight[d].request.trackData

\* C18: after every Euler sub-step of either integrator (10 sub-steps per
\* day) every compartment is >= 0 and Infected is >= 1; in SIS, Susceptible
\* and Infected are in addition <= totalPopulation.
C18_CompartmentsBoundedAfterSubStep ==
    /\ (sim.pc = "step" /\ sim.step >= 1) =>
           /\ sim.c.S >= 0 /\ sim.c.E >= 0 /\ sim.c.R >= 0
           /\ sim.c.I >= Listener
           /\ sim.modelType = "SIS" =>
                  /\ sim.c.S <= sim.params.totalPopulation * Listener
                  /\ sim.c.I <= sim.params.totalPopulation * Listener
    /\ (sim.pc = "push" /\ sim.day >= 1) => sim.step = 10

\* a SEIR sub-step has left Infected on its floor of one listener while
\* listeners are still recovering
C18_Witness ==
    /\ sim.pc = "step" /\ sim.step >= 1
    /\ sim.modelType = "SEIR"
    /\ sim.c.I = Listener
    /\ recoveryFlow(sim.params, sim.c.I) > incubationFlow(sim.params, sim.c.E)

\* the SEIR series generated by the runs of the data-driven forecaster
GeneratedSEIR ==
    IF fc.in.forecaster = "dataDriven" /\ fc.in.modelType = "SEIR"
    THEN {fc.runs[k].generated : k \in 1..Len(fc.runs)} ELSE {}

\* C19: every generated SEIR point has susceptible >= 10% of
\* totalPopulation or recovered = 0.
C19_SusceptibleTenPercentOrNoRecovered ==
    \A series \in GeneratedSEIR :
        \A i \in 1..Len(series) :
            \/ 10 * series[i].susceptible >= series[i].totalPopulation
            \/ series[i].recovered = 0

blended(prev, actual, next) ==
    IF prev + next > 0 /\ 2 * Abs(2 * actual - (prev + next)) > prev + next
    THEN (2 * (8 * actual + prev + next) + 10) \div 20
    ELSE actual

\* C21: the outlier pass visits every interior point of the series being
\* smoothed in ascending order; from the already-smoothed predecessor and the
\* successor it replaces infected by round(0.8 * actual + 0.2 * expected)
\* exactly when expected > 0 and |actual - expected| > 0.5 * expected, and
\* otherwise the point keeps its value.
C21_OutlierPassEveryInteriorPoint ==
    \A k \in 1..Len(fc.runs) :
        LET before == fc.runs[k].clamped
            after == fc.runs[k].smoothed
        IN  \A i \in 2..Len(before) - 1 :
                after[i].infected = blended(after[i - 1].infected, before[i].infected,
                                            before[i + 1].infected)

\* C21 as the code has it: the pass starts at the third point of the series
\* being smoothed, so its second point (the first interior one, which is the
\* first point of the returned series) keeps its value; every later interior
\* point is blended as above, in ascending order.
C21_OutlierPassFromThirdPoint ==
    \A k \in 1..Len(fc.runs) :
        LET before == fc.runs[k].clamped
            after == fc.runs[k].smoothed
        IN  /\ Len(before) >= 2 => after[2].infected = before[2].infected
            /\ \A i \in 3..Len(before) - 1 :
                  after[i].infected = blended(after[i - 1].infected, before[i].infected,
                                              before[i + 1].infected)

\* a run in which the pass replaced the third point by the blend with its
\* neighbours and left the second point as the clamp had it
C21_Witness ==
    \E k \in 1..Len(fc.runs) :
        LET before == fc.runs[k].clamped
            after == fc.runs[k].smoothed
        IN  /\ Len(before) >= 4
            /\ after[3].infected # before[3].infected
            /\ after[3].infected = blended(after[2].infected, before[3].infected,
                                           before[4].infected)
            /\ after[2].infected = before[2].infected

----------------------------------------------------------------------------
(* Scenario selection, lines 442-476 of the scenario forecaster: the       *)
(* weights of the item's classification, their normalisation and the walk  *)
(* over the catalog with a draw of seededRandom.  The draw is a function   *)
(* of title and artist only, the classification of release year,          *)
(* popularity and genres only, so the two vary independently.              *)
(***************************************************************************)
\* items of every classification the weights of lines 443-454 distinguish
ClassifiedTracks ==
    {MusicTrack("t6", <<67>>, <<68>>, releaseYear, genre, popularity) :
        releaseYear \in {0, 1990, 2010, 2025}, genre \in {{"Pop"}, {"Rock"}},
        popularity \in {30, 45, 55, 65, 80}}

\* the values of seededRandom, in thousandths
Draws == 0..999

\* lines 456-463: the weights divided by their total, as quotients
normalized(weights) == [k \in 1..Len(weights) |-> [num |-> weights[k], den |-> SumSeq(weights)]]

BeginSelect(track) ==
    /\ pick.pc = "off"
    /\ pick' = [pc |-> "weighted", track |-> track,
                scenarioWeights |-> normalized(scenarioWeights(track, clock.year))]
    /\ UNCHANGED <<clock, trackCache, response, derived, fc, sim, fold, inflight, page, rec>>

SelectScenario(random) ==
    /\ pick.pc = "weighted"
    /\ pick' = [pc |-> "selected", track |-> pick.track,
                scenarioWeights |-> pick.scenarioWeights, random |-> random,
                selectedScenario |-> selectFrom(scenarioWeights(pick.track, clock.year),
                                                1, 0, random)]
    /\ UNCHANGED <<clock, trackCache, response, derived, fc, sim, fold, inflight, page, rec>>

InitScenario ==
    /\ clock = ClockStart
    /\ trackCache = CacheRest
    /\ response = ResponseRest
    /\ derived = DerivedRest
    /\ fc = FcRest
    /\ sim = SimRest
    /\ fold = FoldRest
    /\ inflight = InflightRest
    /\ pick = PickRest
    /\ page = PageRest
    /\ rec = RecRest

NextScenario ==
    \/ \E track \in ClassifiedTracks : BeginSelect(track)
    \/ \E random \in Draws : SelectScenario(random)

SpecScenario == InitScenario /\ [][NextScenario]_vars

\* the sum of the first k normalised weights, as a numerator over the common
\* denominator
cumulativeWeight(weights, k) == SumSeq([j \in 1..k |-> weights[j].num])

\* the draw, in thousandths, is at most the first k normalised weights
atMost(random, weights, k) == random * weights[1].den <= 1000 * cumulativeWeight(weights, k)

\* C22: the normalised weights sum to 1, and for every draw in [0,1) and
\* every classification exactly one scenario is selected: the first one in
\* catalog order whose cumulative normalised weight is >= the draw.
C22_FirstScenarioReachingDraw ==
    pick.pc = "selected" =>
        LET weights == pick.scenarioWeights
        IN  /\ Len(weights) = Len(scenarios)
            /\ cumulativeWeight(weights, Len(weights)) = weights[1].den
            /\ \E k \in 1..Len(scenarios) :
                  /\ pick.selectedScenario = scenarios[k]
                  /\ atMost(pick.random, weights, k)
                  /\ \A j \in 1..k - 1 : ~atMost(pick.random, weights, j)

\* a draw that equals a cumulative weight of a scenario after the first
C22_Witness ==
    /\ pick.pc = "selected"
    /\ \E k \in 2..Len(scenarios) :
          /\ pick.selectedScenario = scenarios[k]
          /\ pick.random * pick.scenarioWeights[1].den
                 = 1000 * cumulativeWeight(pick.scenarioWeights, k)
          /\ pick.scenarioWeights[1].den # 100

\* the categories of the outlook in the order of their tests, the fallback last
Outlooks ==
    << "explosive_growth", "viral_potential", "sustained_momentum", "steady_decline",
       "comeback_likely", "stable_niche" >>

\* the test of the k-th category on the metrics m; the fallback has none
outlookGuard(m, k) ==
    CASE k = 1 -> exceeds(m.growthPotential, 25, 10) /\ exceeds(m.volatilityFactor, 8, 10)
      [] k = 2 -> exceeds(m.growthPotential, 16, 10) /\ exceeds(m.momentum, 11, 10)
      [] k = 3 -> exceeds(m.overallTrend, 12, 10) /\ exceeds(m.momentum, 19, 20)
      [] k = 4 -> /\ below(m.endTrend, 8, 10) /\ below(m.momentum, 9, 10)
                  /\ below(m.growthPotential, 11, 10)
      [] k = 5 -> /\ exceeds(m.volatilityFactor, 4, 10)
                  /\ m.futureMax.den > 0
                  /\ wideLess(wide(m.currentListeners, 7), wide(m.futureMax.num, 5))
      [] OTHER -> TRUE

\* C23: the outlook is one of the six categories, and it is the k-th one
\* exactly when the test of the k-th holds and the tests of all the
\* categories before it fail (first match wins; "stable_niche" when none
\* matches).
C23_FirstMatchingOutlook ==
    \A r \in 1..Len(fc.runs) :
        LET m == fc.runs[r].insights.metrics
        IN  \E k \in 1..6 :
                /\ fc.runs[r].insights.futureOutlook = Outlooks[k]
                /\ outlookGuard(m, k)
                /\ \A j \in 1..k - 1 : ~outlookGuard(m, j)

\* a run classified "viral_potential" although the test of a later category
\* holds as well
C23_Witness ==
    \E r \in 1..Len(fc.runs) :
        LET m == fc.runs[r].insights.metrics
        IN  /\ fc.runs[r].insights.futureOutlook = "viral_potential"
            /\ ~outlookGuard(m, 1)
            /\ outlookGuard(m, 3)

----------------------------------------------------------------------------
(* generateCreatorRecommendation, lines 1143-1226.  genres is the optional *)
(* argument: present says whether it was passed, names are its entries.    *)
(* Math.random() is the argument random, in thousandths.                   *)
(***************************************************************************)
\* a band whose upper end is one above the code's
confidenceIn_Inclusive(base, span, random) == base + (random * (span + 1)) \div 1000

\* base + Math.floor(Math.random() * span)
confidenceIn(base, span, random) == base + (random * span) \div 1000

\* lines 1155-1174
platformsFor(genres) ==
    IF ~genres.present THEN << "TikTok", "Instagram", "YouTube" >>
    ELSE IF genres.names \cap {"Pop", "Alternative", "Electronic"} # {}
    THEN << "TikTok", "Instagram Reels", "YouTube Shorts" >>
    ELSE IF genres.names \cap {"Hip-Hop", "Rap"} # {}
    THEN << "TikTok", "YouTube", "Instagram" >>
    ELSE IF genres.names \cap {"Rock", "Indie"} # {}
    THEN << "YouTube", "Instagram", "TikTok" >>
    ELSE IF genres.names \cap {"R&B", "Soul"} # {}
    THEN << "Instagram", "TikTok", "YouTube" >>
    ELSE << "Instagram", "YouTube", "TikTok" >>

recommendation(action, timing, platforms, confidence) ==
    [action |-> action, timing |-> timing, platforms |-> platforms,
     confidence |-> confidence]

\* lines 1176-1225
generateCreatorRecommendation(currentTrend, futureOutlook_, growthPotential, genres, random) ==
    LET platforms == platformsFor(genres)
    IN  IF /\ currentTrend = "rising"
           /\ futureOutlook_ \in {"viral_potential", "explosive_growth"}
        THEN recommendation("use_now", "perfect", platforms, confidenceIn(90, 10, random))
        ELSE IF currentTrend = "rising" /\ futureOutlook_ = "sustained_momentum"
        THEN recommendation("use_now", "perfect", platforms, confidenceIn(85, 10, random))
        ELSE IF currentTrend = "stable" /\ exceeds(growthPotential, 13, 10)
        THEN recommendation("use_now", "good", platforms, confidenceIn(75, 15, random))
        ELSE IF currentTrend = "declining" /\ futureOutlook_ = "comeback_likely"
        THEN recommendation("wait_and_see", "okay", platforms, confidenceIn(60, 20, random))
        ELSE IF currentTrend = "stable" /\ futureOutlook_ = "stable_niche"
        THEN recommendation("safe_choice", "good", platforms, confidenceIn(70, 15, random))
        ELSE IF currentTrend = "declining" /\ futureOutlook_ = "steady_decline"
        THEN recommendation("wait_and_see", "poor", platforms, confidenceIn(40, 20, random))
        ELSE recommendation("safe_choice", "okay", platforms, confidenceIn(65, 20, random))

\* the arguments analyzeInsights can pass (lines 1255-1256, 1291-1303, 1277)
CurrentTrends == {"rising", "declining", "stable"}
FutureOutlooks ==
    {"explosive_growth", "viral_potential", "sustained_momentum", "steady_decline",
     "comeback_likely", "stable_niche"}
GrowthPotentials ==
    {Quotient(1, 2), Quotient(13, 10), Quotient(131, 100), Quotient(3, 1), NaN, MinusInfinity}
GenreArguments ==
    {[present |-> FALSE, names |-> {}], [present |-> TRUE, names |-> {}],
     [present |-> TRUE, names |-> {"Pop"}], [present |-> TRUE, names |-> {"Soul"}]}

\* the values of Math.random(), in thousandths
ConfidenceDraws == {0, 99, 100, 500, 949, 950, 999}

Recommend(random) ==
    /\ rec.pc = "called"
    /\ rec' = [rec EXCEPT !.pc = "returned",
                          !.result = generateCreatorRecommendation(
                                         rec.currentTrend, rec.futureOutlook,
                                         rec.growthPotential, rec.genres, random)]
    /\ UNCHANGED <<clock, trackCache, response, derived, fc, sim, fold, inflight, pick, page>>

InitRecommend ==
    /\ clock = ClockStart
    /\ trackCache = CacheRest
    /\ response = ResponseRest
    /\ derived = DerivedRest
    /\ fc = FcRest
    /\ sim = SimRest
    /\ fold = FoldRest
    /\ inflight = InflightRest
    /\ pick = PickRest
    /\ page = PageRest
    /\ \E currentTrend \in CurrentTrends, outlook \in FutureOutlooks,
          growthPotential \in GrowthPotentials, genres \in GenreArguments :
         rec = [pc |-> "called", currentTrend |-> currentTrend,
                futureOutlook |-> outlook, growthPotential |-> growthPotential,
                genres |-> genres,
                result |-> recommendation("none", "none", <<>>, 0)]

NextRecommend == \E random \in ConfidenceDraws : Recommend(random)

SpecRecommend == InitRecommend /\ [][NextRecommend]_vars

\* the tests of the recommendation in their order, the fallback last
recommendationGuard(r, k) ==
    CASE k = 1 -> /\ r.currentTrend = "rising"
                  /\ r.futureOutlook \in {"viral_potential", "explosive_growth"}
      [] k = 2 -> r.currentTrend = "rising" /\ r.futureOutlook = "sustained_momentum"
      [] k = 3 -> /\ r.currentTrend = "stable"
                  /\ r.growthPotential.den > 0
                  /\ 10 * r.growthPotential.num > 13 * r.growthPotential.den
      [] k = 4 -> r.currentTrend = "declining" /\ r.futureOutlook = "comeback_likely"
      [] k = 5 -> r.currentTrend = "stable" /\ r.futureOutlook = "stable_niche"
      [] k = 6 -> r.currentTrend = "declining" /\ r.futureOutlook = "steady_decline"
      [] OTHER -> TRUE

\* action, timing and confidence band of each test, the fallback last
RecommendationBands ==
    << [action |-> "use_now", timing |-> "perfect", low |-> 90, high |-> 99],
       [action |-> "use_now", timing |-> "perfect", low |-> 85, high |-> 94],
       [action |-> "use_now", timing |-> "good", low |-> 75, high |-> 89],
       [action |-> "wait_and_see", timing |-> "okay", low |-> 60, high |-> 79],
       [action |-> "safe_choice", timing |-> "good", low |-> 70, high |-> 84],
       [action |-> "wait_and_see", timing |-> "poor", low |-> 40, high |-> 59],
       [action |-> "safe_choice", timing |-> "okay", low |-> 65, high |-> 84] >>

\* C24: every combination of current trend, outlook and growth potential
\* yields the action and the timing of the first test that matches
\* (safe_choice / okay when none does) and an integer confidence inside the
\* band of that test: 90..99 for rising with viral_potential or
\* explosive_growth, 40..59 for declining with steady_decline, and always
\* within 40..99.
C24_RecommendationOfFirstMatch ==
    rec.pc = "returned" =>
        /\ rec.result.confidence \in 40..99
        /\ \E k \in 1..7 :
              /\ recommendationGuard(rec, k)
              /\ \A j \in 1..k - 1 : ~recommendationGuard(rec, j)
              /\ rec.result.action = RecommendationBands[k].action
              /\ rec.result.timing = RecommendationBands[k].timing
              /\ rec.result.confidence
                     \in RecommendationBands[k].low..RecommendationBands[k].high

\* a rising item with an explosive outlook recommended with the highest
\* confidence of its band
C24_Witness ==
    /\ rec.pc = "returned"
    /\ rec.currentTrend = "rising"
    /\ rec.futureOutlook = "explosive_growth"
    /\ rec.result.action = "use_now"
    /\ rec.result.confidence = 99

\* C25: a simulation called with numDays = n emits exactly n + 1 DataPoints
\* (day 0 through day n), dated with consecutive dates from startDate to
\* startDate + n, so that the last point of the history is dated at the
\* present day.
C25_ConsecutiveDatesUpToNow ==
    /\ sim.pc = "step" =>
          /\ sim.emitted = sim.day + 1
          /\ sim.emitted = 1 => sim.point.date = isoDate(clock, sim.startDate)
          /\ sim.emitted > 1 => sim.point.date = sim.previousDate + 1
    /\ sim.pc = "returned" =>
          /\ sim.emitted = sim.days + 1
          /\ sim.point.date = isoDate(clock, clock.day)

\* C26: the random noise multiplier changes the reported values only: two
\* runs with the same parameters, start date and item whose noise draws
\* differ go through identical internal S, E, I, R at every sub-step.
C26_NoiseLeavesCompartmentsAlone ==
    sim.pc \in {"push", "step", "returned"} => sim.c = sim.other.c

\* two runs with noise enabled that reported different values for a day and
\* are in the sub-steps of that day, with different noise factors
C26_Witness ==
    /\ sim.pc = "step" /\ sim.step >= 1 /\ sim.day >= 1
    /\ sim.addNoise
    /\ sim.noiseFactor # sim.other.noiseFactor
    /\ sim.point.infected # sim.other.point.infected
    /\ sim.c.I > Listener

\* tenths of a listener: the unit in which the initial split of simulateSEIR
\* is exact (its factors are 1.5, 0.8, 1.2, 0.6, 0.7 and 0.3)
Tenths == 2 * 5

\* C27: for an item of popularity 0..100 the initial active count is
\* positive and below totalPopulation, so that Susceptible starts above 0 in
\* simulateSIS; the initial split of simulateSEIR gives S + E + I + R =
\* totalPopulation with all four non-negative, in every branch.
C27_InitialSplitInsidePopulation ==
    (derived.last # NoCall /\ derived.last.track.popularity \in 0..100) =>
        LET p == derived.last.result
            c == splitSEIR(p, derived.last.track, derived.last.env.year, Tenths)
        IN  /\ p.initialInfected > 0
            /\ p.initialInfected < p.totalPopulation
            /\ p.totalPopulation - p.initialInfected > 0
            /\ c.S + c.E + c.I + c.R = p.totalPopulation * Tenths
            /\ c.S >= 0 /\ c.E >= 0 /\ c.I >= 0 /\ c.R >= 0

\* parameters derived for a new and popular item, whose split starts with
\* 1.5 times the initial active count in Infected and 1% in Recovered
C27_Witness ==
    /\ derived.last # NoCall
    /\ derived.last.modelType = "SEIR"
    /\ trackAge(derived.last.track, derived.last.env.year) <= 1
    /\ derived.last.track.popularity > 60
    /\ LET p == derived.last.result
           c == splitSEIR(p, derived.last.track, derived.last.env.year, Tenths)
       IN  /\ c.I = 15 * p.initialInfected
           /\ c.R = Tenths * (p.totalPopulation \div 100)
           /\ c.S > 0

\* the payload most recently supplied for the identifier of c before c ran
lastPayloadBefore(c) ==
    LET d == CHOOSE d \in storedBefore(c) :
                 \A e \in storedBefore(c) : inflight[e].order <= inflight[d].order
    IN  inflight[d].request.trackData

\* the request the step serves
servedNow(c) == inflight[c].pc = "pending" /\ inflight'[c].pc = "done"

\* C28: a request without payload for the identifier k is answered
\* not-found exactly when no earlier request carried a payload for k;
\* otherwise it is analysed on the payload most recently supplied for k.
\* A cache entry is written only by a request that carries a payload for
\* its identifier, and is never removed.
C28_CacheFollowsPayloads ==
    /\ [](\A c \in Clients :
            (inflight[c].pc = "done" /\ inflight[c].request.trackData = NoTrack) =>
                /\ inflight[c].status = 404 <=> storedBefore(c) = {}
                /\ storedBefore(c) # {} =>
                      /\ inflight[c].status = 200
                      /\ inflight[c].track = lastPayloadBefore(c))
    /\ [][\A id \in TrackIds :
            /\ trackCache[id] # NoTrack => trackCache'[id] # NoTrack
            /\ trackCache'[id] # trackCache[id] =>
                  \E c \in Clients :
                      /\ servedNow(c)
                      /\ inflight[c].request.trackId = id
                      /\ inflight[c].request.trackData # NoTrack
                      /\ trackCache'[id] = inflight[c].request.trackData]_vars

\* a request without payload answered not-found, then a request with a
\* payload for the same identifier, then a request without payload for it
\* that is analysed on that payload
C28_Witness ==
    \E c, d, e \in Clients :
        /\ inflight[c].pc = "done" /\ inflight[d].pc = "done" /\ inflight[e].pc = "done"
        /\ inflight[c].order = 1 /\ inflight[d].order = 2 /\ inflight[e].order = 3
        /\ inflight[c].request.trackId = inflight[e].request.trackId
        /\ inflight[d].request.trackId = inflight[e].request.trackId
        /\ inflight[c].request.trackData = NoTrack
        /\ inflight[c].status = 404
        /\ inflight[d].request.trackData # NoTrack
        /\ inflight[e].request.trackData = NoTrack
        /\ inflight[e].status = 200
        /\ inflight[e].track = inflight[d].request.trackData

\* the change from prev to curr is within the limit of the run
withinLimit(prev, curr) == Abs(curr - prev) <= MulDiv(prev, maxPercentOf(fc.in), 100)

\* C29: the clamp leaves a point entirely unchanged when its change from the
\* (clamped) point before it is within the limit, and never changes point 0;
\* the outlier pass changes no field but infected and never changes the last
\* point; neither pass changes a date, a totalPopulation or the length of
\* the series.
C29_PassesChangeOnlyTheirFields ==
    \A k \in 1..Len(fc.runs) :
        LET generated == fc.runs[k].generated
            clamped == fc.runs[k].clamped
            smoothed == fc.runs[k].smoothed
            n == Len(generated)
        IN  /\ Len(clamped) = n /\ Len(smoothed) = n
            /\ n >= 1 => clamped[1] = generated[1]
            /\ n >= 1 => smoothed[n] = clamped[n]
            /\ \A i \in 2..n :
                  withinLimit(clamped[i - 1].infected, generated[i].infected)
                      => clamped[i] = generated[i]
            /\ \A i \in 1..n :
                  /\ clamped[i].date = generated[i].date
                  /\ clamped[i].totalPopulation = generated[i].totalPopulation
                  /\ smoothed[i] = [clamped[i] EXCEPT !.infected = smoothed[i].infected]

\* a run in which the clamp changed one point and left a later one alone, and
\* the outlier pass replaced the infected of a point
C29_Witness ==
    \E k \in 1..Len(fc.runs) :
        LET generated == fc.runs[k].generated
            clamped == fc.runs[k].clamped
            smoothed == fc.runs[k].smoothed
        IN  /\ \E i \in 2..Len(generated) : clamped[i] # generated[i]
            /\ \E i \in 2..Len(generated) :
                  /\ clamped[i] = generated[i]
                  /\ clamped[i].infected # clamped[i - 1].infected
            /\ \E i \in 2..Len(generated) - 1 : smoothed[i].infected # clamped[i].infected

----------------------------------------------------------------------------
(* The Index page of the client, src/client/pages/Index.tsx.  page holds   *)
(* the state of the component (lines 27-31) and the fetches it has         *)
(* started that have not settled yet; issued and latest record, for the    *)
(* properties, how many requests were started and which was the last.      *)
(* Neither control of the page is disabled while a request is in flight    *)
(* (lines 262-265 and 273-278), and the responses of separate fetches      *)
(* settle in any order.                                                    *)
(***************************************************************************)
\* How many requests the user starts
MaxRequests == 3

NoAnalysis == [track |-> NoTrack, modelType |-> "none"]
NoFetch == [seq |-> 0, track |-> NoTrack, modelType |-> "none", outcome |-> "none"]

PageTracks == {TestTrack, ClassicTrack}

analysisRequest(seq, track, modelType) == [seq |-> seq, track |-> track, modelType |-> modelType]

\* lines 145-161 and 183-199: the fetch of a handler is started
startFetch(p, track, modelType) ==
    [p EXCEPT !.isAnalyzing = TRUE,
              !.issued = @ + 1,
              !.pending = @ \cup {analysisRequest(p.issued + 1, track, modelType)},
              !.latest = [seq |-> p.issued + 1, track |-> track,
                          modelType |-> modelType, outcome |-> "pending"]]

\* lines 140-161: handleTrackSelect up to its await
HandleTrackSelect(track) ==
    /\ page.issued < MaxRequests
    /\ page' = startFetch([page EXCEPT !.selectedTrack = track], track,
                          page.selectedModel)
    /\ UNCHANGED <<clock, trackCache, response, derived, fc, sim, fold, inflight, pick, rec>>

\* lines 175-199: handleModelChange up to its await
HandleModelChange(modelType) ==
    /\ page.issued < MaxRequests
    /\ page' = IF page.selectedTrack # NoTrack
               THEN startFetch([page EXCEPT !.selectedModel = modelType],
                               page.selectedTrack, modelType)
               ELSE [page EXCEPT !.selectedModel = modelType]
    /\ UNCHANGED <<clock, trackCache, response, derived, fc, sim, fold, inflight, pick, rec>>

\* lines 163-171 and 201-209: the fetch of request settles and the rest of
\* its handler runs; ok is response.ok of a response that arrived
Settle(request, ok) ==
    /\ request \in page.pending
    /\ page' = [page EXCEPT
                   !.pending = @ \ {request},
                   !.analysisData = IF ok THEN [track |-> request.track,
                                                modelType |-> request.modelType]
                                    ELSE @,
                   !.isAnalyzing = FALSE,
                   !.latest = IF request.seq = page.latest.seq
                              THEN [@ EXCEPT !.outcome = IF ok THEN "ok" ELSE "failed"]
                              ELSE @]
    /\ UNCHANGED <<clock, trackCache, response, derived, fc, sim, fold, inflight, pick, rec>>

InitClient ==
    /\ clock = ClockStart
    /\ trackCache = CacheRest
    /\ response = ResponseRest
    /\ derived = DerivedRest
    /\ fc = FcRest
    /\ sim = SimRest
    /\ fold = FoldRest
    /\ inflight = InflightRest
    /\ pick = PickRest
    /\ rec = RecRest
    /\ page = [selectedTrack |-> NoTrack, selectedModel |-> "SIS",
               analysisData |-> NoAnalysis, isAnalyzing |-> FALSE,
               pending |-> {}, issued |-> 0, latest |-> NoFetch]

NextClient ==
    \/ \E track \in PageTracks : HandleTrackSelect(track)
    \/ \E modelType \in ModelTypes : HandleModelChange(modelType)
    \/ \E request \in page.pending, ok \in BOOLEAN : Settle(request, ok)

SpecClient == InitClient /\ [][NextClient]_vars

\* C30: when analysis requests overlap, once all responses have arrived the
\* displayed analysis is the one of the most recently issued request (when
\* that request succeeded), and the analyzing indicator is on exactly while
\* some request is in flight.
C30_LatestRequestDisplayed ==
    /\ (page.pending = {} /\ page.latest.outcome = "ok") =>
           page.analysisData = [track |-> page.latest.track,
                                modelType |-> page.latest.modelType]
    /\ page.isAnalyzing <=> page.pending # {}
====
